---- MODULE Spec2Model ----
(***************************************************************************)
(* Model of the atlas search service (kshetline/svc-api): the request      *)
(* handler of src/app/atlas.ts, the merge-and-dedup step, the local search *)
(* row conversion and the remote adapters' location construction.          *)
(*                                                                         *)
(* Text is modelled by small codes: a city, county or state is a natural   *)
(* number (0 is the empty string; 1..7 are names of places, 21.. states,   *)
(* 31.. counties), so that the string comparisons of the code (<, ===) are *)
(* the comparisons of the codes.  Latitudes are counted in units of 0.05   *)
(* degrees along one meridian.                                             *)
(***************************************************************************)
EXTENDS Integers, Sequences, FiniteSets, TLC

(* ---------------------------------------------------------------------- *)
(* JavaScript values                                                       *)
(* ---------------------------------------------------------------------- *)

\* A number field that was never assigned (undefined) and the NaN that
\* Math.max makes of it; every real rank is >= 0.
Undefined == -1
NaN == -2

\* A string field that was never assigned.
UndefStr == "undefined"

IsNum(x) == x >= 0

\* a > b on numbers where either side may be undefined or NaN.
JsGt(a, b) == IsNum(a) /\ IsNum(b) /\ a > b

JsLt(a, b) == IsNum(a) /\ IsNum(b) /\ a < b

\* Math.max(a, b)
JsMax(a, b) == IF IsNum(a) /\ IsNum(b) THEN (IF a >= b THEN a ELSE b) ELSE NaN

\* !s for a string
Falsy(s) == s = "" \/ s = UndefStr

\* s1 || s2 for strings
JsOr(s1, s2) == IF Falsy(s1) THEN s2 ELSE s1

Abs(x) == IF x < 0 THEN -x ELSE x

(* ---------------------------------------------------------------------- *)
(* Constants of the program                                                *)
(* ---------------------------------------------------------------------- *)

MIN_EXTERNAL_SOURCE == 100
SOURCE_GEONAMES_POSTAL_UPDATE == 101
SOURCE_GEONAMES_GENERAL_UPDATE == 103
SOURCE_GETTY_UPDATE == 104
DEFAULT_MATCH_LIMIT == 75
MAX_MATCH_LIMIT == 500
ZIP_RANK == 9
MAX_MONTHS_BEFORE_REDOING_EXTENDED_SEARCH == 12
MAX_TIME_GEONAMES == 20
MAX_TIME_GETTY == 110

\* Metres of great-circle distance per latitude unit of the model
\* (0.05 degrees * pi / 180 * 6378.14 km).
LatUnitMetres == 5566
\* The 10 km threshold of the dedup and write-back rules, in metres.
CloseMetres == 10000
\* Latitude units per degree / 10000: |dlat| < 0.0001 degrees is
\* |dlat units| * LatUnitsPerTenThousandth < 1.
LatUnitsPerTenThousandth == 500

(* ---------------------------------------------------------------------- *)
(* AtlasLocation                                                           *)
(* ---------------------------------------------------------------------- *)

\* new AtlasLocation() followed by the assignments the producers make.
NewLocation(city, county, state, country, lat, elevation, zone, zip, rank, placeType, source, geonameID) ==
  [city |-> city, county |-> county, state |-> state, country |-> country,
   latitude |-> lat, elevation |-> elevation, zone |-> zone, zip |-> zip,
   rank |-> rank, placeType |-> placeType, source |-> source,
   geonameID |-> geonameID, showCounty |-> FALSE, showState |-> FALSE,
   matchedByAlternateName |-> FALSE, matchedBySound |-> FALSE,
   useAsUpdate |-> FALSE]

\* locations[i] = undefined
NoLocation == [city |-> 0, county |-> 0, state |-> 0, country |-> "",
   latitude |-> 0, elevation |-> Undefined, zone |-> UndefStr, zip |-> UndefStr,
   rank |-> Undefined, placeType |-> "", source |-> 0,
   geonameID |-> 0, showCounty |-> FALSE, showState |-> FALSE,
   matchedByAlternateName |-> FALSE, matchedBySound |-> FALSE,
   useAsUpdate |-> FALSE]

CountryOrd(country) ==
  CASE country = "CAN" -> 1
    [] country = "FRA" -> 2
    [] country = "GBR" -> 3
    [] country = "USA" -> 4
    [] OTHER -> 0

\* The parenthetical the display name appends for a place type; 0 is none.
PlaceTypeQualifier(l) ==
  CASE l.placeType = "T.PK" -> 1
    [] l.placeType = "T.MT" -> 2
    [] l.placeType = "A.ADM0" -> 3
    [] l.placeType = "A.ADM1" /\ l.country = "CAN" -> 4
    [] l.placeType = "A.ADM1" /\ l.country = "USA" -> 5
    [] OTHER -> 0

\* get displayName(): city + cityQualifier + ', ' + displayState + stateQualifier,
\* as the tuple of its parts (compared part by part).
displayName(l) ==
  LET usLike == l.country = "USA" \/ (l.country = "CAN" /\ l.placeType # "A.ADM0")
      displayState == IF usLike /\ l.placeType # "A.ADM1" THEN l.state
                      ELSE 100 + CountryOrd(l.country)
      gbr == ~usLike /\ l.country = "GBR" /\ l.state # 0
      showState == IF gbr THEN FALSE ELSE l.showState
      stateQualifier1 == IF gbr THEN l.state
                         ELSE IF ~usLike /\ l.placeType # "A.ADM0" THEN 100 + CountryOrd(l.country)
                         ELSE 0
      cityQualifier == IF l.county # 0 /\ l.showCounty THEN l.county ELSE 0
      stateQualifier2 == IF l.state # 0 /\ showState THEN l.state ELSE 0
  IN <<l.city, cityQualifier, displayState, stateQualifier1, stateQualifier2, PlaceTypeQualifier(l)>>

\* a < b for two display names.
RECURSIVE TupleLess(_, _, _)
TupleLess(a, b, k) ==
  IF k > Len(a) THEN FALSE
  ELSE IF a[k] < b[k] THEN TRUE
  ELSE IF a[k] > b[k] THEN FALSE
  ELSE TupleLess(a, b, k + 1)

NameLess(a, b) == TupleLess(displayName(a), displayName(b), 1)

\* eqci(s1, s2) on codes: the codes stand for strings that differ by more
\* than case.
eqci(s1, s2) == s1 = s2

\* AtlasLocation.isCloseMatch
isCloseMatch(this, other) ==
  /\ eqci(this.city, other.city)
  /\ eqci(this.county, other.county)
  /\ eqci(this.state, other.state)
  /\ this.country = other.country
  /\ Abs(this.latitude - other.latitude) * LatUnitsPerTenThousandth < 1
  /\ this.elevation = other.elevation
  /\ this.zone = other.zone
  /\ this.zip = other.zip
  /\ this.placeType = other.placeType

\* The comparator of SearchResult.toPlainText: descending rank, then
\* ascending display name.
plainTextCompare(a, b) ==
  IF JsLt(a.rank, b.rank) THEN 1
  ELSE IF JsGt(a.rank, b.rank) THEN -1
  ELSE IF NameLess(a, b) THEN -1
  ELSE IF NameLess(b, a) THEN 1
  ELSE 0

\* AtlasLocation.compareTo: the SearchResult order.
compareTo(a, b) == plainTextCompare(a, b)

\* Array.prototype.sort with a comparator, as the engine sorts a short
\* array: each element is inserted into the sorted prefix, moving left past
\* the elements the comparator puts after it (stable).
RECURSIVE insertPosition(_, _, _, _)
insertPosition(sorted, x, k, plain) ==
  IF k = 0 THEN 0
  ELSE IF (IF plain THEN plainTextCompare(sorted[k], x) ELSE compareTo(sorted[k], x)) > 0
       THEN insertPosition(sorted, x, k - 1, plain)
  ELSE k

insertInto(sorted, x, plain) ==
  LET k == insertPosition(sorted, x, Len(sorted), plain)
  IN SubSeq(sorted, 1, k) \o <<x>> \o SubSeq(sorted, k + 1, Len(sorted))

RECURSIVE sortFrom(_, _, _, _)
sortFrom(sorted, arr, k, plain) ==
  IF k > Len(arr) THEN sorted
  ELSE sortFrom(insertInto(sorted, arr[k], plain), arr, k + 1, plain)

\* uniqueMatches.sort((a, b) => a.compareTo(b))
sortByCompareTo(arr) == sortFrom(<<>>, arr, 1, FALSE)

\* this.matches.sort(...) of toPlainText
sortForPlainText(arr) == sortFrom(<<>>, arr, 1, TRUE)

(* ---------------------------------------------------------------------- *)
(* gazetteer: keys and distances                                           *)
(* ---------------------------------------------------------------------- *)

\* simplify(city): several spellings of a name share one simplified key
\* (codes 1 and 2 are two spellings of one name, 3 and 4 of another).
simplify(city) == (city + 1) \div 2

\* roughDistanceBetweenLocationsInKm, in metres, for two points of one
\* meridian.
roughDistanceBetweenLocations(lat1, lat2) == Abs(lat1 - lat2) * LatUnitMetres

\* The text after the comma of a location key: the state for USA and CAN
\* places that have one, the country otherwise.
keyRegion(state, country) ==
  IF state # 0 /\ (country = "USA" \/ country = "CAN") THEN state
  ELSE 100 + CountryOrd(country)

\* A LocationMap is the sequence of its entries in insertion order; a key is
\* <<simplified city, region, index>>, index 1 standing for no "(n)" suffix.
mapHas(map, key) == \E k \in 1..Len(map) : map[k].key = key

RECURSIVE freeIndex(_, _, _, _)
freeIndex(map, city, region, index) ==
  IF mapHas(map, <<city, region, index>>) THEN freeIndex(map, city, region, index + 1)
  ELSE index

\* makeLocationKey(city, state, country, otherLocations)
makeLocationKey(city, state, country, otherLocations) ==
  LET c == simplify(city)
      r == keyRegion(state, country)
  IN <<c, r, freeIndex(otherLocations, c, r, 1)>>

\* map.set(key, location) for a key the map does not hold yet.
mapSet(map, key, location) == Append(map, [key |-> key, loc |-> location])

mapValues(map) == [k \in 1..Len(map) |-> map[k].loc]

(* ---------------------------------------------------------------------- *)
(* atlas.ts: merge and dedup                                               *)
(* ---------------------------------------------------------------------- *)

\* A LocationArrayMap is the sequence of its buckets in insertion order.
bucketIndex(destination, key) ==
  IF \E k \in 1..Len(destination) : destination[k].key = key
  THEN CHOOSE k \in 1..Len(destination) : destination[k].key = key
  ELSE 0

\* copyAndMergeLocations(destination, source)
RECURSIVE copyAndMergeFrom(_, _, _)
copyAndMergeFrom(destination, source, n) ==
  IF n > Len(source) THEN destination
  ELSE LET key == <<source[n].key[1], source[n].key[2]>>
           b == bucketIndex(destination, key)
           next == IF b = 0
                   THEN Append(destination, [key |-> key, locations |-> <<source[n].loc>>])
                   ELSE [destination EXCEPT ![b].locations = Append(@, source[n].loc)]
       IN copyAndMergeFrom(next, source, n + 1)

copyAndMergeLocations(destination, source) == copyAndMergeFrom(destination, source, 1)

MATCH_ADM(placeType) == placeType \in {"A.ADM0", "A.ADM1", "A.ADM2"}
MATCH_PPL(placeType) == placeType \in {"P.PPL", "P.PPLA", "P.PPLC"}
MATCH_PPLX(placeType) == placeType \in {"P.PPLA", "P.PPLC"}

\* zone.endsWith('?')
endsWithQuestion(zone) == zone \in {"?", "EST?", "CET?"}

\* The body of the inner loop of eliminateDuplicatesAndSort for the pair
\* (i, j): location1 holds the values read from locations[i] when the outer
\* loop reached i (rank1, zip1, source1, ...), placeType1 the local that the
\* place-type rules reassign. The result is the bucket, the new placeType1
\* and whether the inner loop breaks.
\* The branch for two locations of the same GeoNames id with the test of
\* the sources turned round: the location of the lower source stays and
\* takes the higher source.
sameGeonameIDKeepingLower(zoned, i, j, rank1, rank2, zip1, zip2, source1, source2) ==
  IF source1 < source2 THEN
    LET kept == [zoned[i] EXCEPT !.rank = JsMax(rank1, rank2), !.zip = JsOr(zip1, zip2),
                                 !.source = source2]
    IN [locations |-> [zoned EXCEPT ![i] = [kept EXCEPT !.useAsUpdate =
                                               ~isCloseMatch(kept, zoned[j])]],
        undefined |-> j]
  ELSE
    LET gone == [zoned[i] EXCEPT !.zip = JsOr(zip2, zip1)]
        kept == [zoned[j] EXCEPT !.rank = JsMax(rank1, rank2), !.source = source1]
    IN [locations |-> [zoned EXCEPT ![j] = [kept EXCEPT !.useAsUpdate =
                                               (source2 < source1 /\ ~isCloseMatch(kept, gone))]],
        undefined |-> i]

\* The branch for two locations of the same GeoNames id without the test
\* source2 > source1 in the mark of the second location.
sameGeonameIDIgnoringSources(zoned, i, j, rank1, rank2, zip1, zip2, source1, source2) ==
  IF source1 > source2 THEN
    LET kept == [zoned[i] EXCEPT !.rank = JsMax(rank1, rank2), !.zip = JsOr(zip1, zip2),
                                 !.source = source2]
    IN [locations |-> [zoned EXCEPT ![i] = [kept EXCEPT !.useAsUpdate =
                                               ~isCloseMatch(kept, zoned[j])]],
        undefined |-> j]
  ELSE
    LET gone == [zoned[i] EXCEPT !.zip = JsOr(zip2, zip1)]
        kept == [zoned[j] EXCEPT !.rank = JsMax(rank1, rank2), !.source = source1]
    IN [locations |-> [zoned EXCEPT ![j] = [kept EXCEPT !.useAsUpdate =
                                               ~isCloseMatch(kept, gone)]],
        undefined |-> i]

\* if (geonameID1 && geonameID1 === geonameID2): newer GeoNames data for the
\* same location replaces older. The result names the index that is set
\* to undefined.
sameGeonameID(zoned, i, j, rank1, rank2, zip1, zip2, source1, source2) ==
  IF source1 > source2 THEN
    LET kept == [zoned[i] EXCEPT !.rank = JsMax(rank1, rank2), !.zip = JsOr(zip1, zip2),
                                 !.source = source2]
    IN [locations |-> [zoned EXCEPT ![i] = [kept EXCEPT !.useAsUpdate =
                                               ~isCloseMatch(kept, zoned[j])]],
        undefined |-> j]
  ELSE
    LET gone == [zoned[i] EXCEPT !.zip = JsOr(zip2, zip1)]
        kept == [zoned[j] EXCEPT !.rank = JsMax(rank1, rank2), !.source = source1]
    IN [locations |-> [zoned EXCEPT ![j] = [kept EXCEPT !.useAsUpdate =
                                               (source2 > source1 /\ ~isCloseMatch(kept, gone))]],
        undefined |-> i]

reconcilePair(locations, i, j, location1, placeType1) ==
  LET zone1 == IF Falsy(location1.zone) THEN "?" ELSE location1.zone
      rank1 == location1.rank
      zip1 == location1.zip
      source1 == location1.source
      state1 == location1.state
      county1 == location1.county
      geonameID1 == location1.geonameID
      l2 == locations[j]
      zone2 == IF l2.zone = UndefStr THEN "?" ELSE l2.zone
      rank2 == l2.rank
      zip2 == l2.zip
      source2 == l2.source
      state2 == l2.state
      county2 == l2.county
      geonameID2 == l2.geonameID
      pt1a == IF MATCH_ADM(placeType1) /\ MATCH_PPL(l2.placeType) THEN l2.placeType ELSE placeType1
      pt2a == IF MATCH_ADM(l2.placeType) /\ MATCH_PPL(pt1a) THEN pt1a ELSE l2.placeType
      pt1 == IF MATCH_PPL(pt1a) /\ MATCH_PPLX(pt2a) THEN pt2a ELSE pt1a
      pt2 == IF MATCH_PPL(pt2a) /\ MATCH_PPLX(pt1) THEN pt1 ELSE pt2a
      near == roughDistanceBetweenLocations(location1.latitude, l2.latitude) < CloseMetres
      zoned == IF near /\ endsWithQuestion(zone1) /\ ~endsWithQuestion(zone2)
               THEN [locations EXCEPT ![i].zone = zone2]
               ELSE IF near /\ endsWithQuestion(zone2) /\ ~endsWithQuestion(zone1)
               THEN [locations EXCEPT ![j].zone = zone1]
               ELSE locations
      dropI(locs) == [locations |-> [locs EXCEPT ![i] = NoLocation], placeType1 |-> pt1, break |-> TRUE]
      dropJ(locs) == [locations |-> [locs EXCEPT ![j] = NoLocation], placeType1 |-> pt1, break |-> FALSE]
      keep(locs) == [locations |-> locs, placeType1 |-> pt1, break |-> FALSE]
  IN
  IF geonameID1 # 0 /\ geonameID1 = geonameID2 THEN
    LET same == sameGeonameID(zoned, i, j, rank1, rank2, zip1, zip2, source1, source2)
    IN IF same.undefined = j THEN dropJ(same.locations) ELSE dropI(same.locations)
  ELSE IF near /\ pt2 = "T.PK" /\ pt1 = "T.MT" THEN dropI(zoned)
  ELSE IF near /\ pt1 = "T.PK" /\ pt2 = "T.MT" THEN dropJ(zoned)
  ELSE IF pt1 # pt2 THEN keep(zoned)
  ELSE IF state1 # state2 THEN
    IF JsGt(rank2, rank1) THEN dropI(zoned)
    ELSE IF JsGt(rank1, rank2) \/ state2 = 0 THEN dropJ(zoned)
    ELSE IF state1 = 0 THEN dropI(zoned)
    ELSE keep([zoned EXCEPT ![i].showState = TRUE, ![j].showState = TRUE])
  ELSE IF county1 # county2 THEN
    IF JsGt(rank2, rank1) THEN dropI(zoned)
    ELSE IF JsGt(rank1, rank2) \/ county2 = 0 THEN dropJ(zoned)
    ELSE IF county1 = 0 THEN dropI(zoned)
    ELSE keep([zoned EXCEPT ![i].showCounty = TRUE, ![j].showCounty = TRUE])
  ELSE IF JsGt(rank2, rank1) THEN
    IF source1 < MIN_EXTERNAL_SOURCE /\ source2 >= MIN_EXTERNAL_SOURCE
    THEN dropJ([zoned EXCEPT ![i].rank = rank2])
    ELSE dropI(zoned)
  ELSE IF (~Falsy(zip1) /\ Falsy(zip2)) \/ JsGt(rank1, rank2) THEN
    IF source2 < MIN_EXTERNAL_SOURCE /\ source1 >= MIN_EXTERNAL_SOURCE
    THEN dropI([zoned EXCEPT ![j].rank = JsMax(rank1, rank2), ![j].zip = JsOr(zip1, zip2)])
    ELSE dropJ(zoned)
  ELSE IF source1 < MIN_EXTERNAL_SOURCE /\ source2 >= MIN_EXTERNAL_SOURCE THEN dropJ(zoned)
  ELSE dropI(zoned)

\* for (let j = i + 1; j < locations.length; ++j)
RECURSIVE innerLoop(_, _, _, _, _)
innerLoop(locations, i, j, location1, placeType1) ==
  IF j > Len(locations) THEN locations
  ELSE IF locations[j] = NoLocation THEN innerLoop(locations, i, j + 1, location1, placeType1)
  ELSE LET r == reconcilePair(locations, i, j, location1, placeType1)
       IN IF r.break THEN r.locations
          ELSE innerLoop(r.locations, i, j + 1, location1, r.placeType1)

\* The outer loop with the inner loop started at j = i: a location is
\* compared with itself first.
RECURSIVE outerLoopFromSelf(_, _)
outerLoopFromSelf(locations, i) ==
  IF i > Len(locations) - 1 THEN locations
  ELSE IF locations[i] = NoLocation THEN outerLoopFromSelf(locations, i + 1)
  ELSE outerLoopFromSelf(innerLoop(locations, i, i, locations[i], locations[i].placeType), i + 1)

\* for (let i = 0; i < locations.length - 1; ++i)
RECURSIVE outerLoop(_, _)
outerLoop(locations, i) ==
  IF i > Len(locations) - 1 THEN locations
  ELSE IF locations[i] = NoLocation THEN outerLoop(locations, i + 1)
  ELSE outerLoop(innerLoop(locations, i, i + 1, locations[i], locations[i].placeType), i + 1)

\* The first keys.forEach of eliminateDuplicatesAndSort: every bucket
\* reconciled.
reconcileBuckets(mergedMatches) ==
  [b \in 1..Len(mergedMatches) |->
     [mergedMatches[b] EXCEPT !.locations = outerLoop(@, 1)]]

\* mergedMatches.keys.sort(): the buckets in key order.
keyLess(k1, k2) == TupleLess(k1, k2, 1)

RECURSIVE sortBucketsFrom(_, _, _)
sortBucketsFrom(sorted, buckets, n) ==
  IF n > Len(buckets) THEN sorted
  ELSE LET before == Cardinality({k \in 1..Len(sorted) : keyLess(sorted[k].key, buckets[n].key)})
       IN sortBucketsFrom(SubSeq(sorted, 1, before) \o <<buckets[n]>>
                            \o SubSeq(sorted, before + 1, Len(sorted)), buckets, n + 1)

sortBuckets(buckets) == sortBucketsFrom(<<>>, buckets, 1)

\* The second keys.forEach: the survivors in key order, at most limit of
\* them.
RECURSIVE flattenFrom(_, _, _, _, _)
flattenFrom(uniqueMatches, buckets, b, n, limit) ==
  IF b > Len(buckets) THEN uniqueMatches
  ELSE IF n > Len(buckets[b].locations) THEN flattenFrom(uniqueMatches, buckets, b + 1, 1, limit)
  ELSE IF buckets[b].locations[n] # NoLocation /\ Len(uniqueMatches) < limit
       THEN flattenFrom(Append(uniqueMatches, buckets[b].locations[n]), buckets, b, n + 1, limit)
  ELSE flattenFrom(uniqueMatches, buckets, b, n + 1, limit)

\* eliminateDuplicatesAndSort(mergedMatches, limit)
eliminateDuplicatesAndSort(mergedMatches, limit) ==
  sortByCompareTo(flattenFrom(<<>>, sortBuckets(reconcileBuckets(mergedMatches)), 1, 1, limit))

(* ---------------------------------------------------------------------- *)
(* gazetteer: close matches                                                *)
(* ---------------------------------------------------------------------- *)

\* simplified.startsWith(prefix) on simplified keys: key 2 is key 1 with
\* more letters after it.
keyStartsWith(key, prefix) == key = prefix \/ (key = 2 /\ prefix = 1)

\* closeMatchForCity(target, candidate)
closeMatchForCity(target, candidate) ==
  target # 0 /\ candidate # 0 /\ keyStartsWith(simplify(candidate), simplify(target))

\* closeMatchForState(target, state, country): the target names the state
\* or the country.
closeMatchForState(target, state, country) ==
  target = 0 \/ (state # 0 /\ target = state) \/ target = 100 + CountryOrd(country)

(* ---------------------------------------------------------------------- *)
(* atlas_database.ts: the local search                                     *)
(* ---------------------------------------------------------------------- *)

EXACT_MATCH == 0
EXACT_MATCH_ALT == 1
STARTS_WITH == 2
SOUNDS_LIKE == 3

\* SOUNDEX(key) of the database: keys 1, 3 and 4 sound alike.
SOUNDEX(key) == IF key = 3 \/ key = 4 THEN 1 ELSE key

\* The rows a SELECT returns, in table order: hits are the positions of the
\* rows that satisfy its WHERE clause.
RECURSIVE selectFrom(_, _, _, _)
selectFrom(table, hits, k, acc) ==
  IF k > Len(table) THEN acc
  ELSE selectFrom(table, hits, k + 1, IF k \in hits THEN Append(acc, table[k]) ELSE acc)

selectRows(table, hits) == selectFrom(table, hits, 1, <<>>)

\* The location doDataBaseSearch makes of one row (the rank rules and the
\* assignments of the row loop).
rowLocation(result, parsed, matchType, rankAdjust, altName, resultsLength) ==
  LET city == IF altName # 0 THEN altName ELSE result.name
      state == result.admin1
      country == result.country
      bonus(b, n) == IF b THEN n ELSE 0
      rank == IF ~Falsy(parsed.postalCode)
              THEN ZIP_RANK
                   + (IF resultsLength > 1
                      THEN bonus(parsed.targetCity # 0 /\ closeMatchForCity(parsed.targetCity, city), 2)
                         + bonus(parsed.targetCity # 0 /\ closeMatchForState(parsed.targetCity, state, country), 1)
                         + bonus(parsed.targetState # 0 /\ closeMatchForState(parsed.targetState, state, country), 1)
                         + bonus(parsed.targetState # 0 /\ closeMatchForCity(parsed.targetState, city), 1)
                      ELSE 0)
              ELSE IF result.rank + rankAdjust >= ZIP_RANK THEN ZIP_RANK - 1
              ELSE IF result.rank + rankAdjust < 0 THEN 0
              ELSE result.rank + rankAdjust
      location == NewLocation(city, result.admin2, state, country, result.latitude,
                              result.elevation, result.time_zone, result.postal_code, rank,
                              result.feature_type, result.source, result.geonames_id)
  IN [location EXCEPT !.matchedByAlternateName = (matchType = EXACT_MATCH_ALT),
                      !.matchedBySound = (matchType = SOUNDS_LIKE)]

\* for (const result of results): the rows of one stage added to matches.
RECURSIVE rowLoop(_, _, _, _, _, _, _, _, _, _)
rowLoop(matches, examined, results, n, parsed, extendedSearch, maxMatches, pass, matchType, stage) ==
  IF n > Len(results) THEN [matches |-> matches, examined |-> examined]
  ELSE
    LET result == results[n]
        seen == examined \cup {result.item_no}
    IN IF result.item_no \in examined
       THEN rowLoop(matches, examined, results, n + 1, parsed, extendedSearch, maxMatches, pass, matchType, stage)
       ELSE IF Falsy(parsed.postalCode)
               /\ ((result.source >= MIN_EXTERNAL_SOURCE /\ ~extendedSearch /\ pass = 0)
                   \/ ~closeMatchForState(parsed.targetState, result.admin1, result.country))
       THEN rowLoop(matches, seen, results, n + 1, parsed, extendedSearch, maxMatches, pass, matchType, stage)
       ELSE
         LET location == rowLocation(result, parsed, matchType, stage.rankAdjust, stage.altName, Len(results))
             key == makeLocationKey(location.city, result.admin1, result.country, matches)
             added == mapSet(matches, key, location)
         IN IF Len(added) > maxMatches * 4
            THEN [matches |-> added, examined |-> seen]
            ELSE rowLoop(added, seen, results, n + 1, parsed, extendedSearch, maxMatches, pass, matchType, stage)

\* The switch of the stage loop: the rows queried, the rank adjustment and
\* the alternate name; skip is the stage's "continue".
stageQuery(atlas2, altNames, parsed, pass, matchType) ==
  LET simplifiedCity == simplify(parsed.targetCity)
      rows == 1..Len(atlas2)
      ranked == {k \in rows : pass # 0 \/ atlas2[k].rank > 0}
      altResults == selectRows(altNames, {k \in 1..Len(altNames) :
                                            altNames[k].alt_key_name = simplifiedCity})
  IN
  CASE matchType = EXACT_MATCH ->
         IF ~Falsy(parsed.postalCode)
         THEN [skip |-> FALSE, rankAdjust |-> 0, altName |-> 0,
               results |-> selectRows(atlas2, {k \in rows :
                                                 atlas2[k].postal_code = parsed.postalCode})]
         ELSE [skip |-> FALSE, rankAdjust |-> 1, altName |-> 0,
               results |-> selectRows(atlas2, {k \in ranked :
                                                 atlas2[k].key_name = simplifiedCity})]
    [] matchType = EXACT_MATCH_ALT ->
         IF Len(altResults) = 0
         THEN [skip |-> TRUE, rankAdjust |-> 0, altName |-> 0, results |-> <<>>]
         ELSE [skip |-> FALSE, rankAdjust |-> 0,
               altName |-> IF altResults[1].misspelling = "Y" THEN 0 ELSE altResults[1].alt_name,
               results |-> IF altResults[1].specific_item2 > 0
                           THEN selectRows(atlas2, {k \in rows :
                                                      atlas2[k].item_no = altResults[1].specific_item2})
                           ELSE selectRows(atlas2, {k \in rows :
                                                      atlas2[k].key_name = altResults[1].atlas_key_name})]
    [] matchType = STARTS_WITH ->
         [skip |-> FALSE, rankAdjust |-> 0, altName |-> 0,
          results |-> selectRows(atlas2, {k \in ranked :
                         \/ keyStartsWith(atlas2[k].key_name, simplifiedCity)
                         \/ (atlas2[k].variant # 0 /\ keyStartsWith(atlas2[k].variant, simplifiedCity))})]
    [] OTHER ->
         IF parsed.cityHasDigit
         THEN [skip |-> TRUE, rankAdjust |-> 0, altName |-> 0, results |-> <<>>]
         ELSE [skip |-> FALSE, rankAdjust |-> -1, altName |-> 0,
               results |-> selectRows(atlas2, {k \in ranked :
                                                 atlas2[k].sound = SOUNDEX(simplifiedCity)})]

\* The test after a stage without the test for matches found: only pass 0
\* and postal searches stop.
ladderStopsInPassZero(pass, size, matchType, parsed) ==
  (pass = 0 /\ matchType >= STARTS_WITH) \/ ~Falsy(parsed.postalCode)

\* The test after a stage as "pass 0 has produced matches, the query is
\* postal, or STARTS_WITH has been reached with matches".
ladderStopsAsStated(pass, size, matchType, parsed) ==
  \/ (pass = 0 /\ size > 0)
  \/ ~Falsy(parsed.postalCode)
  \/ (matchType >= STARTS_WITH /\ size > 0)

\* The test after a stage: SOUNDS_LIKE is left out on the first pass or when
\* matches have been found, and a postal search has one stage.
ladderStops(pass, size, matchType, parsed) ==
  ((pass = 0 \/ size > 0) /\ matchType >= STARTS_WITH) \/ ~Falsy(parsed.postalCode)

\* for (let matchType = EXACT_MATCH; matchType <= SOUNDS_LIKE; ++matchType):
\* the matches, and the stages whose atlas2 query was sent with the size of
\* matches after each.
RECURSIVE stageLoop(_, _, _, _, _, _, _, _, _, _)
stageLoop(matches, examined, queried, atlas2, altNames, parsed, extendedSearch, maxMatches, pass, matchType) ==
  IF matchType > SOUNDS_LIKE THEN [matches |-> matches, queried |-> queried]
  ELSE
    LET stage == stageQuery(atlas2, altNames, parsed, pass, matchType)
    IN IF stage.skip
       THEN stageLoop(matches, examined, queried, atlas2, altNames, parsed, extendedSearch, maxMatches,
                      pass, matchType + 1)
       ELSE
         LET r == rowLoop(matches, examined, stage.results, 1, parsed, extendedSearch, maxMatches,
                          pass, matchType, stage)
             sent == Append(queried, [pass |-> pass, matchType |-> matchType,
                                      size |-> Len(r.matches)])
         IN IF ladderStops(pass, Len(r.matches), matchType, parsed)
            THEN [matches |-> r.matches, queried |-> sent]
            ELSE stageLoop(r.matches, r.examined, sent, atlas2, altNames, parsed, extendedSearch,
                           maxMatches, pass, matchType + 1)

\* for (let pass = 0; pass < 2; ++pass): pass 0, then pass 1 unless the
\* search is postal.
searchPasses(atlas2, altNames, parsed, extendedSearch, maxMatches) ==
  LET pass0 == stageLoop(<<>>, {}, <<>>, atlas2, altNames, parsed, extendedSearch, maxMatches,
                         0, EXACT_MATCH)
  IN IF ~Falsy(parsed.postalCode) THEN pass0
     ELSE stageLoop(pass0.matches, {}, pass0.queried, atlas2, altNames, parsed, extendedSearch,
                    maxMatches, 1, EXACT_MATCH)

\* doDataBaseSearch(connection, parsed, extendedSearch, maxMatches) when no
\* query fails.
doDataBaseSearch(atlas2, altNames, parsed, extendedSearch, maxMatches) ==
  searchPasses(atlas2, altNames, parsed, extendedSearch, maxMatches).matches

\* A LocationMap filled the way the producers fill theirs:
\* matches.set(makeLocationKey(city, state, country, matches), location).
RECURSIVE keyedFrom(_, _, _)
keyedFrom(map, list, n) ==
  IF n > Len(list) THEN map
  ELSE keyedFrom(mapSet(map, makeLocationKey(list[n].city, list[n].state, list[n].country, map),
                        list[n]), list, n + 1)

keyedLocations(list) == keyedFrom(<<>>, list, 1)

\* Merge-and-dedup of one list of candidates.
mergeAndDedup(list, limit) ==
  eliminateDuplicatesAndSort(copyAndMergeLocations(<<>>, keyedLocations(list)), limit)

(* ---------------------------------------------------------------------- *)
(* atlas_database.ts: write-back to atlas2                                 *)
(* ---------------------------------------------------------------------- *)

\* value || 0 and value || '' of the values bound to a statement.
orZero(n) == IF n = Undefined \/ n = NaN THEN 0 ELSE n
orEmpty(str) == IF str = UndefStr THEN "" ELSE str

MinOf(S) == CHOOSE x \in S : \A y \in S : x <= y
MaxOf(S) == CHOOSE x \in S : \A y \in S : x >= y

\* The item_no AUTO_INCREMENT gives an inserted row.
nextItemNo(table) ==
  IF table = <<>> THEN 1 ELSE MaxOf({table[k].item_no : k \in 1..Len(table)}) + 1

\* The column values the UPDATE and the INSERT bind for a location; neither
\* statement names geonames_id.
rowValues(location, item_no, geonames_id) ==
  [item_no |-> item_no, key_name |-> simplify(location.city), variant |-> 0,
   name |-> location.city, admin2 |-> location.county, admin1 |-> location.state,
   country |-> location.country, latitude |-> location.latitude,
   elevation |-> orZero(location.elevation), time_zone |-> location.zone,
   postal_code |-> orEmpty(location.zip), rank |-> orZero(location.rank),
   feature_type |-> location.placeType, sound |-> SOUNDEX(simplify(location.city)),
   source |-> location.source, geonames_id |-> geonames_id]

\* One iteration of `for (const location of matchList)` in updateAtlasDB:
\* the table after the statements it executes. SELECT returns the rows in
\* table order.
updateLocation(table, location, dbUpdate) ==
  LET asUpdate == location.useAsUpdate
      results == IF asUpdate
                 THEN {k \in 1..Len(table) : table[k].geonames_id = location.geonameID}
                 ELSE {k \in 1..Len(table) : table[k].key_name = simplify(location.city)}
      matching == {k \in results :
                     /\ location.country = table[k].country
                     /\ roughDistanceBetweenLocations(location.latitude, table[k].latitude)
                          < CloseMetres
                     /\ \/ (location.country # "USA" /\ location.country # "CAN")
                        \/ location.state = table[k].admin1}
      found == IF asUpdate THEN results # {} ELSE matching # {}
      \* the row whose item_no, admin2 and admin1 the loop saw last
      dbRow == IF asUpdate \/ ~found THEN MaxOf(results) ELSE MinOf(matching)
      geoNamesDuplicates == IF asUpdate /\ found THEN results \ {MinOf(results)} ELSE {}
  IN IF location.source < MIN_EXTERNAL_SOURCE /\ ~asUpdate THEN table
     ELSE IF ~dbUpdate THEN table
     ELSE IF asUpdate /\ found
     THEN selectRows([table EXCEPT ![dbRow] = rowValues(location, @.item_no, @.geonames_id)],
                     (1..Len(table)) \ geoNamesDuplicates)
     ELSE IF ~found THEN Append(table, rowValues(location, nextItemNo(table), 0))
     ELSE [table EXCEPT ![dbRow].admin2 = location.county,
                        ![dbRow].admin1 = IF @ = 0 /\ location.state # 0
                                          THEN location.state ELSE @]

\* updateAtlasDB(connection, matchList, dbUpdate) when no query fails.
RECURSIVE updateAtlasFrom(_, _, _, _)
updateAtlasFrom(table, matchList, n, dbUpdate) ==
  IF n > Len(matchList) THEN table
  ELSE updateAtlasFrom(updateLocation(table, matchList[n], dbUpdate), matchList, n + 1,
                       dbUpdate)

updateAtlasDB(table, matchList, dbUpdate) == updateAtlasFrom(table, matchList, 1, dbUpdate)

(* ---------------------------------------------------------------------- *)
(* Optional values                                                         *)
(* ---------------------------------------------------------------------- *)

\* A variable that may be undefined holds <<>> or <<value>>.
None == <<>>
Some(v) == <<v>>
IsSome(o) == Len(o) = 1

(* ---------------------------------------------------------------------- *)
(* geo-names-search.ts: the GeoNames adapter                               *)
(* ---------------------------------------------------------------------- *)

\* The rank and fields geoNamesSearchAux gives the location of one entry of
\* the service's reply; doZip is the postal-code form of the search.
geoNamesLocation(geoname, doZip) ==
  LET placeType == IF doZip THEN "P.PPL" ELSE geoname.fcode
      populated == IF geoname.population > 0
                   THEN (IF geoname.population >= 1000000 THEN 2 ELSE 1)
                   ELSE 0
      rank == IF MATCH_ADM(placeType) \/ MATCH_PPL(placeType)
              THEN 1 + (IF placeType = "P.PPLC" THEN 1 ELSE 0) + populated
              ELSE 0
  IN NewLocation(geoname.name, geoname.adminName2, geoname.admin1, geoname.country,
                 geoname.lat, Undefined, geoname.timezone,
                 IF doZip THEN geoname.postalcode ELSE UndefStr, rank, placeType,
                 IF doZip THEN SOURCE_GEONAMES_POSTAL_UPDATE ELSE SOURCE_GEONAMES_GENERAL_UPDATE,
                 geoname.geonameId)

\* containsMatchingLocation(matches, location)
containsMatchingLocation(matches, location) ==
  \E k \in 1..Len(matches) :
    /\ matches[k].loc.city = location.city
    /\ matches[k].loc.county = location.county
    /\ matches[k].loc.state = location.state
    /\ matches[k].loc.country = location.country

\* geonames.every(...): the entries that pass the city and state filters,
\* keyed, without repeats of one place.
RECURSIVE geoNamesPlaces(_, _, _, _, _, _)
geoNamesPlaces(keyedPlaces, geonames, n, targetCity, targetState, doZip) ==
  IF n > Len(geonames) THEN keyedPlaces
  ELSE
    LET location == geoNamesLocation(geonames[n], doZip)
        accepted == (doZip \/ closeMatchForCity(targetCity, location.city))
                    /\ closeMatchForState(targetState, location.state, location.country)
    IN IF accepted /\ ~containsMatchingLocation(keyedPlaces, location)
       THEN geoNamesPlaces(mapSet(keyedPlaces,
                                  makeLocationKey(location.city, location.state, location.country, keyedPlaces),
                                  location),
                           geonames, n + 1, targetCity, targetState, doZip)
       ELSE geoNamesPlaces(keyedPlaces, geonames, n + 1, targetCity, targetState, doZip)

\* geoNamesSearchAux when the service replies with the list geonames.
geoNamesSearchAux(targetCity, targetState, doZip, geonames) ==
  geoNamesPlaces(<<>>, geonames, 1, targetCity, targetState, doZip)

(* ---------------------------------------------------------------------- *)
(* atlas.ts: the Getty adapter                                             *)
(* ---------------------------------------------------------------------- *)

\* The location gettyPreliminarySearch and gettySearchAux make of one place
\* of the service's reply: no rank, zip, elevation or GeoNames id is ever
\* assigned.
gettyLocation(place) ==
  NewLocation(place.city, place.county, place.state, place.country, place.latitude,
              Undefined, place.zone, UndefStr, Undefined, place.placeType,
              SOURCE_GETTY_UPDATE, 0)

\* gettySearchAux when every page is retrieved: the places keyed in order.
gettySearchAux(places) ==
  keyedLocations([k \in 1..Len(places) |-> gettyLocation(places[k])])

(* ---------------------------------------------------------------------- *)
(* common.ts, atlas.ts: promises                                           *)
(* ---------------------------------------------------------------------- *)

NotLaunched == [state |-> "none", map |-> <<>>, error |-> ""]
Pending == [state |-> "pending", map |-> <<>>, error |-> ""]
Fulfilled(map) == [state |-> "fulfilled", map |-> map, error |-> ""]
Rejected(message) == [state |-> "rejected", map |-> <<>>, error |-> message]

Settled(promise) == promise.state \in {"fulfilled", "rejected"}

\* Promise.all over the promises as written, without the catch: rejects
\* with the first rejection.
settleAllUncaught(promises) ==
  [rejected |-> \E k \in 1..Len(promises) : promises[k].state = "rejected",
   values |-> [k \in 1..Len(promises) |->
                 [isError |-> FALSE, message |-> "", map |-> promises[k].map]]]

\* Promise.all(promises.map(promise => promise.catch(err => err))): never
\* rejects; a rejected promise contributes its Error as a value.
settleAll(promises) ==
  [rejected |-> FALSE,
   values |-> [k \in 1..Len(promises) |->
                 IF promises[k].state = "rejected"
                 THEN [isError |-> TRUE, message |-> promises[k].error, map |-> <<>>]
                 ELSE [isError |-> FALSE, message |-> "", map |-> promises[k].map]]]

\* remoteSourcesSearch once every launched adapter has settled: the results
\* record, or rejected when the await rejects.
remoteSourcesSearch(geoNamesPromise, gettyPromise) ==
  LET doGeonames == geoNamesPromise.state # "none"
      doGetty == gettyPromise.state # "none"
      promises == (IF doGeonames THEN <<geoNamesPromise>> ELSE <<>>)
                  \o (IF doGetty THEN <<gettyPromise>> ELSE <<>>)
      geoNamesIndex == IF doGeonames THEN 1 ELSE 0
      gettyIndex == IF doGetty THEN (IF doGeonames THEN 2 ELSE 1) ELSE 0
      all == settleAll(promises)
      geo == all.values[geoNamesIndex]
      get == all.values[gettyIndex]
      geoFailed == geoNamesIndex > 0 /\ geo.isError
      gettyFailed == gettyIndex > 0 /\ get.isError
  IN [rejected |-> all.rejected,
      results |->
        [geoNamesMetrics |-> doGeonames,
         geoNamesMatches |-> IF geoNamesIndex > 0 /\ ~geo.isError THEN Some(geo.map) ELSE None,
         geoNamesError |-> IF geoFailed THEN geo.message ELSE "",
         gettyMetrics |-> doGetty,
         gettyMatches |-> IF gettyIndex > 0 /\ ~get.isError THEN Some(get.map) ELSE None,
         gettyError |-> IF gettyFailed THEN get.message ELSE "",
         noErrors |-> ~geoFailed /\ ~gettyFailed,
         matches |-> (IF geoNamesIndex > 0 /\ ~geo.isError THEN Len(geo.map) ELSE 0)
                     + (IF gettyIndex > 0 /\ ~get.isError THEN Len(get.map) ELSE 0)]]

(* ---------------------------------------------------------------------- *)
(* atlas_database.ts: the search log                                       *)
(* ---------------------------------------------------------------------- *)

NO_RESULTS_YET == -1

\* The row of atlas_searches2 for the request's normalized search; exists
\* is FALSE when the table holds no such row.
NoSearchRow == [exists |-> FALSE, extended |-> FALSE, hits |-> 0, matches |-> 0, months |-> 0]

\* logSearchResults without the test of the row's age.
logSearchResultsIgnoringAge(row, extended, matchCount, dbUpdate) ==
  LET wasExtended == row.exists /\ row.extended
      matches == IF row.exists THEN row.matches ELSE 0
      ageMonths == IF row.exists THEN row.months ELSE -1
      found == row.exists /\ (wasExtended \/ ~extended)
      extended2 == wasExtended \/ extended
      matchCount2 == IF matchCount < matches THEN matches ELSE matchCount
  IN [found |-> found,
      row |-> IF matchCount >= 0 /\ dbUpdate
              THEN (IF ~found /\ ageMonths < 0
                    THEN [exists |-> TRUE, extended |-> extended2, hits |-> 1,
                          matches |-> matchCount2, months |-> 0]
                    ELSE [row EXCEPT !.hits = @ + 1, !.extended = extended2])
              ELSE row]

\* logSearchResults without `if (wasExtended) extended = true`.
logSearchResultsNotSticky(row, extended, matchCount, dbUpdate) ==
  LET wasExtended == row.exists /\ row.extended
      matches == IF row.exists THEN row.matches ELSE 0
      ageMonths == IF row.exists THEN row.months ELSE -1
      found == row.exists /\ ageMonths < MAX_MONTHS_BEFORE_REDOING_EXTENDED_SEARCH
               /\ (wasExtended \/ ~extended)
      matchCount2 == IF matchCount < matches THEN matches ELSE matchCount
  IN [found |-> found,
      row |-> IF matchCount >= 0 /\ dbUpdate
              THEN (IF ~found /\ ageMonths < 0
                    THEN [exists |-> TRUE, extended |-> extended, hits |-> 1,
                          matches |-> matchCount2, months |-> 0]
                    ELSE [row EXCEPT !.hits = @ + 1, !.extended = extended])
              ELSE row]

\* logSearchResults(connection, searchStr, extended, matchCount, dbUpdate)
\* when no query fails: the value returned and the row left in the table.
logSearchResults(row, extended, matchCount, dbUpdate) ==
  LET wasExtended == row.exists /\ row.extended
      matches == IF row.exists THEN row.matches ELSE 0
      ageMonths == IF row.exists THEN row.months ELSE -1
      found == row.exists /\ ageMonths < MAX_MONTHS_BEFORE_REDOING_EXTENDED_SEARCH
               /\ (wasExtended \/ ~extended)
      extended2 == wasExtended \/ extended
      matchCount2 == IF matchCount < matches THEN matches ELSE matchCount
  IN [found |-> found,
      row |-> IF matchCount >= 0 /\ dbUpdate
              THEN (IF ~found /\ ageMonths < 0
                    THEN [exists |-> TRUE, extended |-> extended2, hits |-> 1,
                          matches |-> matchCount2, months |-> 0]
                    ELSE [row EXCEPT !.hits = @ + 1, !.extended = extended2])
              ELSE row]

\* hasSearchBeenDoneRecently(connection, searchStr, extended)
hasSearchBeenDoneRecently(row, extended) ==
  logSearchResults(row, extended, NO_RESULTS_YET, FALSE).found

(* ---------------------------------------------------------------------- *)
(* atlas.ts: the request and what the handler derives from it              *)
(* ---------------------------------------------------------------------- *)

RemoteModes == {"skip", "normal", "extend", "forced", "only", "geonames", "getty"}

\* toInt(value, defaultValue) of a query parameter: <<>> is a parameter
\* that is absent or not a number, <<n>> one that parses to n.
toInt(value, defaultValue) == IF value = <<>> THEN defaultValue ELSE value[1]

Min(a, b) == IF a <= b THEN a ELSE b

withoutDB(remoteMode) == remoteMode \in {"only", "geonames", "getty"}
extend(remoteMode) == remoteMode \in {"extend", "only", "forced"}
limitOf(req) == Min(toInt(req.limit, DEFAULT_MATCH_LIMIT), MAX_MATCH_LIMIT)
\* noTrace without `|| remoteMode === 'only'`.
noTraceParameterOnly(req) == req.notrace
noTrace(req) == req.notrace \/ req.remote = "only"
dbUpdate(req) == ~noTrace(req)

\* parseSearchString results used by the requests of the model: city 1 is
\* in atlas2, city 5 only sounds like rows of atlas2, city 11 matches no row.
ParsedSearches ==
  {[targetCity |-> 1, targetState |-> 0, postalCode |-> "", cityHasDigit |-> FALSE],
   [targetCity |-> 1, targetState |-> 22, postalCode |-> "", cityHasDigit |-> FALSE],
   [targetCity |-> 5, targetState |-> 0, postalCode |-> "", cityHasDigit |-> FALSE],
   [targetCity |-> 11, targetState |-> 0, postalCode |-> "", cityHasDigit |-> FALSE],
   [targetCity |-> 0, targetState |-> 0, postalCode |-> "03060", cityHasDigit |-> FALSE],
   [targetCity |-> 1, targetState |-> 0, postalCode |-> "03060", cityHasDigit |-> FALSE]}

LimitParameters == {<<>>, <<-1>>, <<0>>, <<1>>, <<2>>, <<600>>}

Requests ==
  [remote : RemoteModes, limit : LimitParameters, pt : BOOLEAN, notrace : BOOLEAN,
   parsed : ParsedSearches]

(* ---------------------------------------------------------------------- *)
(* The database and the remote services the requests run against           *)
(* ---------------------------------------------------------------------- *)

AtlasRow(item_no, key_name, name, admin2, admin1, latitude, postal_code, rank, sound, source, geonames_id) ==
  [item_no |-> item_no, key_name |-> key_name, variant |-> 0, name |-> name,
   admin2 |-> admin2, admin1 |-> admin1, country |-> "USA", latitude |-> latitude,
   elevation |-> 50, time_zone |-> "EST", postal_code |-> postal_code, rank |-> rank,
   feature_type |-> "P.PPL", sound |-> sound, source |-> source, geonames_id |-> geonames_id]

\* atlas2: two places of one name (one of them written back from GeoNames),
\* a place whose name starts with theirs and shares a postal code, and a
\* place that only sounds like them.
Atlas2 ==
  <<AtlasRow(1, 1, 1, 31, 21, 0, "03060", 3, 1, 1, 7),
    AtlasRow(2, 1, 2, 0, 22, 40, "", 0, 1, SOURCE_GEONAMES_GENERAL_UPDATE, 8),
    AtlasRow(3, 2, 3, 0, 21, 4, "03060", 8, 2, 1, 0),
    AtlasRow(4, 4, 7, 0, 21, 80, "", 2, 1, 1, 0)>>

\* atlas_alt_names: no alternate names.
AtlasAltNames == <<>>

SearchRows ==
  {NoSearchRow,
   [exists |-> TRUE, extended |-> FALSE, hits |-> 3, matches |-> 2, months |-> 1],
   [exists |-> TRUE, extended |-> TRUE, hits |-> 5, matches |-> 1, months |-> 13]}

GeoName(name, admin1, country, fcode, population, lat, timezone, geonameId, postalcode) ==
  [name |-> name, adminName2 |-> 0, admin1 |-> admin1, country |-> country, fcode |-> fcode,
   population |-> population, lat |-> lat, timezone |-> timezone, geonameId |-> geonameId,
   postalcode |-> postalcode]

\* Replies of the GeoNames service.
GeoNamesReplies ==
  {<<>>,
   <<GeoName(1, 21, "USA", "P.PPL", 90000, 0, "EST", 7, "03060")>>,
   <<GeoName(1, 21, "FRA", "P.PPLC", 2000000, 0, UndefStr, 9, "03060"),
     GeoName(2, 22, "USA", "T.PK", 0, 40, "EST", 10, "03060")>>}

GettyPlace(city, state, country, latitude, zone) ==
  [city |-> city, county |-> 0, state |-> state, country |-> country, latitude |-> latitude,
   zone |-> zone, placeType |-> "P.PPL"]

\* Replies of the Getty service.
GettyReplies ==
  {<<>>,
   <<GettyPlace(2, 23, "USA", 0, "EST")>>,
   <<GettyPlace(1, 21, "FRA", 0, "CET?"), GettyPlace(1, 21, "USA", 0, "EST?")>>}

(* ---------------------------------------------------------------------- *)
(* atlas.ts: the steps of the handler after the retry loop                 *)
(* ---------------------------------------------------------------------- *)

\* The three copyAndMergeLocations calls of the handler, in their order.
mergeMatches(dbMatches, remoteResults) ==
  LET local == IF IsSome(dbMatches) THEN copyAndMergeLocations(<<>>, dbMatches[1]) ELSE <<>>
      geo == IF IsSome(remoteResults) /\ IsSome(remoteResults[1].geoNamesMatches)
             THEN copyAndMergeLocations(local, remoteResults[1].geoNamesMatches[1])
             ELSE local
  IN IF IsSome(remoteResults) /\ IsSome(remoteResults[1].gettyMatches)
     THEN copyAndMergeLocations(geo, remoteResults[1].gettyMatches[1])
     ELSE geo

\* if (uniqueMatches.length > limit) { uniqueMatches.length = limit; ... }:
\* assigning a negative length throws a RangeError.
truncate(uniqueMatches, limit) ==
  IF Len(uniqueMatches) > limit
  THEN [thrown |-> limit < 0,
        matches |-> IF limit < 0 THEN <<>> ELSE SubSeq(uniqueMatches, 1, limit),
        limitReached |-> TRUE]
  ELSE [thrown |-> FALSE, matches |-> uniqueMatches, limitReached |-> FALSE]

\* The error and warning summarizeResults puts into the result.
summarizeResults(remoteResults, dbError, extended) ==
  LET geoNamesError == IF IsSome(remoteResults) THEN remoteResults[1].geoNamesError ELSE ""
      gettyError == IF IsSome(remoteResults) THEN remoteResults[1].gettyError ELSE ""
  IN [error |-> IF dbError # "" THEN dbError ELSE JsOr(geoNamesError, gettyError),
      warning |-> IF geoNamesError # "" /\ (~extended \/ gettyError # "")
                  THEN "Supplementary data temporarily unavailable."
                  ELSE IF geoNamesError # "" \/ gettyError # ""
                  THEN "Some supplementary data temporarily unavailable."
                  ELSE ""]

(* ---------------------------------------------------------------------- *)
(* The request handler as a state machine                                  *)
(* ---------------------------------------------------------------------- *)

VARIABLES request, searchLog, pc, attempt, consultRemoteData, dbMatches,
          dbMatchedOnlyBySound, dbError, gotBetterMatchesFromRemoteData,
          geoNamesPromise, gettyPromise, remoteResults, mergedMatches, result,
          response, pool, recencyLookups, logReads, atlas2, updateError

handlerVars == <<request, searchLog, pc, attempt, consultRemoteData, dbMatches,
                 dbMatchedOnlyBySound, dbError, gotBetterMatchesFromRemoteData,
                 geoNamesPromise, gettyPromise, remoteResults, mergedMatches, result,
                 response, pool, recencyLookups, logReads, atlas2, updateError>>

NoResult == [matches |-> <<>>, limitReached |-> FALSE, error |-> "", warning |-> ""]
NoResponse == [status |-> 0, thrown |-> "", matches |-> <<>>, limitReached |-> FALSE, error |-> ""]

\* The handler's state when the request arrives; idle is "connect" for a
\* request about to be served.
HandlerStart(at) ==
  /\ pc = at
  /\ attempt = 0
  /\ consultRemoteData = FALSE
  /\ dbMatches = None
  /\ dbMatchedOnlyBySound = FALSE
  /\ dbError = ""
  /\ gotBetterMatchesFromRemoteData = FALSE
  /\ geoNamesPromise = NotLaunched
  /\ gettyPromise = NotLaunched
  /\ remoteResults = None
  /\ mergedMatches = <<>>
  /\ result = NoResult
  /\ response = NoResponse
  /\ pool = [acquired |-> 0, released |-> 0]
  /\ recencyLookups = 0
  /\ logReads = 0
  /\ atlas2 = Atlas2
  /\ updateError = FALSE

\* asyncHandler: a rejection of the handler goes to next(err), which answers
\* with the error and status 500.
Throw(error) ==
  /\ response' = [NoResponse EXCEPT !.status = 500, !.thrown = error]
  /\ pc' = "done"

released(p) == [p EXCEPT !.released = @ + 1]

\* const doGeonames = remoteMode !== 'getty'
doGeonames(remoteMode) == remoteMode # "getty"

\* doGetty whatever the mode.
doGettyInEveryMode(remoteMode) == TRUE

\* const doGetty = remoteMode !== 'geonames'
doGetty(remoteMode) == remoteMode # "geonames"

\* remoteSourcesSearch: the promises pushed for doGeonames and for
\* doGetty && !parsed.postalCode.
launchGeoNames(remoteMode) == IF doGeonames(remoteMode) THEN Pending ELSE NotLaunched
launchGetty(remoteMode, parsed) ==
  IF doGetty(remoteMode) /\ Falsy(parsed.postalCode) THEN Pending ELSE NotLaunched

\* After connection.release() with the merge and dedup left out when no
\* remote data is consulted: the handler goes on to updateDbIfRequired.
ProceedPastMerge(consult) ==
  IF consult
  THEN /\ geoNamesPromise' = launchGeoNames(request.remote)
       /\ gettyPromise' = launchGetty(request.remote, request.parsed)
       /\ pc' = "remote"
  ELSE /\ pc' = "update"
       /\ UNCHANGED <<geoNamesPromise, gettyPromise>>

\* After connection.release(): the adapters are launched when remote data is
\* to be consulted.
Proceed(consult) ==
  IF consult
  THEN /\ geoNamesPromise' = launchGeoNames(request.remote)
       /\ gettyPromise' = launchGetty(request.remote, request.parsed)
       /\ pc' = "remote"
  ELSE /\ pc' = "merge"
       /\ UNCHANGED <<geoNamesPromise, gettyPromise>>

\* const connection = await pool.getConnection()
GetConnection ==
  /\ pc = "connect"
  /\ \/ /\ pool' = [pool EXCEPT !.acquired = @ + 1]
        /\ pc' = "recency"
        /\ UNCHANGED response
     \/ /\ Throw("ConnectionError")
        /\ UNCHANGED pool
  /\ UNCHANGED <<request, searchLog, attempt, consultRemoteData, dbMatches,
                 dbMatchedOnlyBySound, dbError, gotBetterMatchesFromRemoteData,
                 geoNamesPromise, gettyPromise, remoteResults, mergedMatches, result,
                 recencyLookups, logReads, atlas2, updateError>>

\* The decision with the test for skip left out: every mode that does not
\* force remote data reads the search log.
CheckRecencyIgnoringSkip ==
  /\ pc = "recency"
  /\ IF request.remote \in {"forced", "only", "geonames", "getty"}
     THEN /\ consultRemoteData' = TRUE
          /\ pc' = "search"
          /\ UNCHANGED <<recencyLookups, logReads, response>>
     ELSE /\ recencyLookups' = recencyLookups + 1
          /\ logReads' = logReads + 1
          /\ \/ /\ consultRemoteData' =
                     (consultRemoteData
                      \/ ~hasSearchBeenDoneRecently(searchLog, extend(request.remote)))
                /\ pc' = "search"
                /\ UNCHANGED response
             \/ /\ Throw("QueryError")
                /\ UNCHANGED consultRemoteData
  /\ UNCHANGED <<request, searchLog, attempt, dbMatches, dbMatchedOnlyBySound, dbError,
                 gotBetterMatchesFromRemoteData, geoNamesPromise, gettyPromise,
                 remoteResults, mergedMatches, result, pool, atlas2, updateError>>

\* The decision whether remote data is consulted; the search log is read
\* only when the mode does not decide.
CheckRecency ==
  /\ pc = "recency"
  /\ IF request.remote \in {"forced", "only", "geonames", "getty"}
     THEN /\ consultRemoteData' = TRUE
          /\ pc' = "search"
          /\ UNCHANGED <<recencyLookups, logReads, response>>
     ELSE IF request.remote # "skip"
     THEN /\ recencyLookups' = recencyLookups + 1
          /\ logReads' = logReads + 1
          /\ \/ /\ consultRemoteData' =
                     (consultRemoteData
                      \/ ~hasSearchBeenDoneRecently(searchLog, extend(request.remote)))
                /\ pc' = "search"
                /\ UNCHANGED response
             \/ /\ Throw("QueryError")
                /\ UNCHANGED consultRemoteData
     ELSE /\ pc' = "search"
          /\ UNCHANGED <<consultRemoteData, recencyLookups, logReads, response>>
  /\ UNCHANGED <<request, searchLog, attempt, dbMatches, dbMatchedOnlyBySound, dbError,
                 gotBetterMatchesFromRemoteData, geoNamesPromise, gettyPromise,
                 remoteResults, mergedMatches, result, pool, atlas2, updateError>>

\* dbMatchedOnlyBySound left true whatever the search returned.
matchedOnlyBySoundUntested(found) == TRUE

\* dbMatchedOnlyBySound = true, then false at the first location that is not
\* matchedBySound.
matchedOnlyBySound(found) == \A k \in 1..Len(found) : found[k].loc.matchedBySound

\* The local search of one attempt, the retry after its first failure, the
\* release of the connection and the launch of the adapters.
LocalSearch ==
  /\ pc = "search"
  /\ IF withoutDB(request.remote)
     THEN /\ dbMatches' = None
          /\ pool' = released(pool)
          /\ Proceed(consultRemoteData)
          /\ UNCHANGED <<dbMatchedOnlyBySound, dbError, attempt>>
     ELSE \/ LET found == doDataBaseSearch(atlas2, AtlasAltNames, request.parsed,
                                           extend(request.remote), limitOf(request) + 1)
             IN /\ dbMatches' = Some(found)
                /\ dbMatchedOnlyBySound' = matchedOnlyBySound(found)
                /\ dbError' = ""
                /\ pool' = released(pool)
                /\ Proceed(consultRemoteData)
                /\ UNCHANGED attempt
          \/ /\ dbError' = "DBError"
             /\ IF attempt = 0
                THEN /\ attempt' = 1
                     /\ pc' = "connect"
                     /\ UNCHANGED <<pool, geoNamesPromise, gettyPromise>>
                ELSE /\ pool' = released(pool)
                     /\ Proceed(consultRemoteData)
                     /\ UNCHANGED attempt
             /\ UNCHANGED <<dbMatches, dbMatchedOnlyBySound>>
  /\ UNCHANGED <<request, searchLog, consultRemoteData, gotBetterMatchesFromRemoteData,
                 remoteResults, mergedMatches, result, response, recencyLookups, logReads,
                 atlas2, updateError>>

\* geoNamesSearchAux settles before the timer of geoNamesSearch: with the
\* places of a reply, or with an Error.
GeoNamesSettles ==
  /\ pc = "remote"
  /\ geoNamesPromise.state = "pending"
  /\ \/ \E reply \in GeoNamesReplies :
          geoNamesPromise' = Fulfilled(geoNamesSearchAux(request.parsed.targetCity,
                                                         request.parsed.targetState,
                                                         ~Falsy(request.parsed.postalCode), reply))
     \/ geoNamesPromise' = Rejected("GeoNames error")
  /\ UNCHANGED <<request, searchLog, pc, attempt, consultRemoteData, dbMatches,
                 dbMatchedOnlyBySound, dbError, gotBetterMatchesFromRemoteData,
                 gettyPromise, remoteResults, mergedMatches, result, response, pool,
                 recencyLookups, logReads, atlas2, updateError>>

\* The timer of timedPromise wins the race.
GeoNamesTimesOut ==
  /\ pc = "remote"
  /\ geoNamesPromise.state = "pending"
  /\ geoNamesPromise' = Rejected("GeoNames search timed out")
  /\ UNCHANGED <<request, searchLog, pc, attempt, consultRemoteData, dbMatches,
                 dbMatchedOnlyBySound, dbError, gotBetterMatchesFromRemoteData,
                 gettyPromise, remoteResults, mergedMatches, result, response, pool,
                 recencyLookups, logReads, atlas2, updateError>>

GettySettles ==
  /\ pc = "remote"
  /\ gettyPromise.state = "pending"
  /\ \/ \E reply \in GettyReplies : gettyPromise' = Fulfilled(gettySearchAux(reply))
     \/ gettyPromise' = Rejected("Getty error")
  /\ UNCHANGED <<request, searchLog, pc, attempt, consultRemoteData, dbMatches,
                 dbMatchedOnlyBySound, dbError, gotBetterMatchesFromRemoteData,
                 geoNamesPromise, remoteResults, mergedMatches, result, response, pool,
                 recencyLookups, logReads, atlas2, updateError>>

GettyTimesOut ==
  /\ pc = "remote"
  /\ gettyPromise.state = "pending"
  /\ gettyPromise' = Rejected("Getty search timed out")
  /\ UNCHANGED <<request, searchLog, pc, attempt, consultRemoteData, dbMatches,
                 dbMatchedOnlyBySound, dbError, gotBetterMatchesFromRemoteData,
                 geoNamesPromise, remoteResults, mergedMatches, result, response, pool,
                 recencyLookups, logReads, atlas2, updateError>>

\* remoteSourcesSearch returns: every launched adapter has settled.
RemoteJoin ==
  /\ pc = "remote"
  /\ geoNamesPromise.state # "pending"
  /\ gettyPromise.state # "pending"
  /\ LET r == remoteSourcesSearch(geoNamesPromise, gettyPromise)
     IN IF r.rejected
        THEN /\ Throw("AdapterError")
             /\ UNCHANGED <<remoteResults, gotBetterMatchesFromRemoteData, dbMatches>>
        ELSE /\ remoteResults' = Some(r.results)
             /\ IF r.results.matches > 0 /\ dbMatchedOnlyBySound
                THEN /\ gotBetterMatchesFromRemoteData' = TRUE
                     /\ dbMatches' = None
                ELSE UNCHANGED <<gotBetterMatchesFromRemoteData, dbMatches>>
             /\ pc' = "merge"
             /\ UNCHANGED response
  /\ UNCHANGED <<request, searchLog, attempt, consultRemoteData, dbMatchedOnlyBySound,
                 dbError, geoNamesPromise, gettyPromise, mergedMatches, result, pool,
                 recencyLookups, logReads, atlas2, updateError>>

\* Merge, dedup, sort, truncation to limit and summarizeResults.
Merge ==
  /\ pc = "merge"
  /\ LET merged == mergeMatches(dbMatches, remoteResults)
         limit == limitOf(request)
         uniqueMatches == eliminateDuplicatesAndSort(merged, limit + 1)
         cut == truncate(uniqueMatches, limit)
         summary == summarizeResults(remoteResults, dbError, extend(request.remote))
     IN /\ mergedMatches' = merged
        /\ IF cut.thrown
           THEN /\ Throw("RangeError")
                /\ UNCHANGED result
           ELSE /\ result' = [matches |-> cut.matches, limitReached |-> cut.limitReached,
                              error |-> summary.error, warning |-> summary.warning]
                /\ pc' = IF dbError = "" THEN "update" ELSE "respond"
                /\ UNCHANGED response
  /\ UNCHANGED <<request, searchLog, attempt, consultRemoteData, dbMatches,
                 dbMatchedOnlyBySound, dbError, gotBetterMatchesFromRemoteData,
                 geoNamesPromise, gettyPromise, remoteResults, pool, recencyLookups, logReads,
                 atlas2, updateError>>

\* updateDbIfRequired entered whatever the adapters reported.
mayUpdateDespiteErrors(remote) == TRUE

\* if (!remoteResults || remoteResults.noErrors)
mayUpdate(remote) == ~IsSome(remote) \/ remote[1].noErrors

\* updateDbIfRequired: the search is logged and the remote matches are
\* written back; a failure inside the try (of getConnection, of the log
\* queries, or of a query of updateAtlasDB after some locations have been
\* written) goes to svcApiConsole.error and is dropped, and
\* connection.release() after it throws when no connection was acquired.
UpdateDbIfRequired ==
  /\ pc = "update"
  /\ IF ~mayUpdate(remoteResults)
     THEN /\ pc' = "respond"
          /\ UNCHANGED <<searchLog, pool, logReads, atlas2, updateError, response>>
     ELSE
       LET write == dbUpdate(request) /\ ~noTrace(request)
           log == logSearchResults(searchLog, extend(request.remote), Len(result.matches), write)
           update == (~log.found \/ gotBetterMatchesFromRemoteData) /\ IsSome(remoteResults)
       IN \/ /\ Throw("TypeError")
             /\ updateError' = TRUE
             /\ UNCHANGED <<searchLog, pool, logReads, atlas2>>
          \/ /\ pool' = released([pool EXCEPT !.acquired = @ + 1])
             /\ pc' = "respond"
             /\ logReads' = logReads + 1
             /\ UNCHANGED response
             /\ \/ /\ updateError' = TRUE
                   /\ UNCHANGED <<searchLog, atlas2>>
                \/ /\ searchLog' = log.row
                   /\ atlas2' = IF update THEN updateAtlasDB(atlas2, result.matches, write)
                                ELSE atlas2
                   /\ UNCHANGED updateError
                \/ /\ update
                   /\ searchLog' = log.row
                   /\ updateError' = TRUE
                   /\ \E done \in 0..(Len(result.matches) - 1) :
                        atlas2' = updateAtlasDB(atlas2, SubSeq(result.matches, 1, done), write)
  /\ UNCHANGED <<request, attempt, consultRemoteData, dbMatches, dbMatchedOnlyBySound,
                 dbError, gotBetterMatchesFromRemoteData, geoNamesPromise, gettyPromise,
                 remoteResults, mergedMatches, result, recencyLookups>>

\* res.send: the result as JSON, or as plain text after toPlainText has
\* sorted the matches.
Respond ==
  /\ pc = "respond"
  /\ response' = [status |-> 200, thrown |-> "",
                  matches |-> IF request.pt THEN sortForPlainText(result.matches)
                              ELSE result.matches,
                  limitReached |-> result.limitReached, error |-> result.error]
  /\ pc' = "done"
  /\ UNCHANGED <<request, searchLog, attempt, consultRemoteData, dbMatches,
                 dbMatchedOnlyBySound, dbError, gotBetterMatchesFromRemoteData,
                 geoNamesPromise, gettyPromise, remoteResults, mergedMatches, result, pool,
                 recencyLookups, logReads, atlas2, updateError>>

(* ---------------------------------------------------------------------- *)
(* State of the components that are also exercised on their own            *)
(* ---------------------------------------------------------------------- *)

\* The search log: the row of one search string, the last call of
\* logSearchResults that wrote it and the last lookup made since.
VARIABLES logRow, logged, lookup

logVars == <<logRow, logged, lookup>>

LogIdle == logRow = NoSearchRow /\ logged = None /\ lookup = None

\* timedPromise around the two adapters: the time since the adapters were
\* launched (seconds), each adapter's own promise, its timer, the promise
\* timedPromise returned, which of the two settled first, and what the
\* await of remoteSourcesSearch returned.
VARIABLES clock, adapterPromise, timer, timedPromise, first, joined

raceVars == <<clock, adapterPromise, timer, timedPromise, first, joined>>

Adapters == {"GeoNames", "Getty"}

RaceIdle ==
  /\ clock = 0
  /\ adapterPromise = [a \in Adapters |-> NotLaunched]
  /\ timer = [a \in Adapters |-> "none"]
  /\ timedPromise = [a \in Adapters |-> NotLaunched]
  /\ first = [a \in Adapters |-> "none"]
  /\ joined = None

\* The IP-lookup service: the time stamps it holds, the clock (ms), every
\* request it has forwarded, the request it answered last and how many it
\* has answered.
VARIABLES times, now, forwarded, lastRequest, answered

limiterVars == <<times, now, forwarded, lastRequest, answered>>

LimiterIdle ==
  /\ times = <<>>
  /\ now = 0
  /\ forwarded = <<>>
  /\ lastRequest = None
  /\ answered = 0

\* Start-up and re-initialization: whether the server listens, has exited
\* or is still starting, which run of initAtlas loaded each dictionary last
\* (0 for none), the number of runs, the run that set lastInit, the step
\* that failed in the first run and what the last re-init did.
VARIABLES server, dictionaries, inits, lastInit, startupFailure, reInit

startupVars == <<server, dictionaries, inits, lastInit, startupFailure, reInit>>

InitSteps == <<"timezones", "flagCodes", "country_codes", "us_counties", "celestial">>

StartupIdle ==
  /\ server = "starting"
  /\ dictionaries = [k \in 1..Len(InitSteps) |-> 0]
  /\ inits = 0
  /\ lastInit = 0
  /\ startupFailure = 0
  /\ reInit = None

\* parseSearchString: the query, the parse mode, the result of parsing the
\* query and the result of parsing that result's normalizedSearch.
VARIABLES query, parseMode, parsedOnce, parsedAgain

parseVars == <<query, parseMode, parsedOnce, parsedAgain>>

ParseIdle ==
  /\ query = <<>>
  /\ parseMode = "strict"
  /\ parsedOnce = None
  /\ parsedAgain = None

\* updateAtlasDB: atlas2 before the call, the matches and the flag it is
\* called with, and atlas2 after it.
VARIABLES atlasBefore, writeList, writeAllowed, atlasAfter

writeBackVars == <<atlasBefore, writeList, writeAllowed, atlasAfter>>

WriteBackIdle ==
  /\ atlasBefore = <<>>
  /\ writeList = <<>>
  /\ writeAllowed = FALSE
  /\ atlasAfter = None

\* Requests that log one search at the same time: the row of the search
\* when they start, the row now, each request's place in logSearchResults
\* with the row it has read, and the INSERTs sent for a search that already
\* has a row.
VARIABLES rowAtStart, sharedRow, loggers, duplicateInserts

logRaceVars == <<rowAtStart, sharedRow, loggers, duplicateInserts>>

LogRaceIdle ==
  /\ rowAtStart = NoSearchRow
  /\ sharedRow = NoSearchRow
  /\ loggers = <<>>
  /\ duplicateInserts = 0

\* doDataBaseSearch: the rows of atlas2, the parsed search, the largest
\* number of matches asked for, and what the search did.
VARIABLES searchRows, searchFor, searchMax, searched

searchVars == <<searchRows, searchFor, searchMax, searched>>

SearchIdle ==
  /\ searchRows = <<>>
  /\ searchFor = <<>>
  /\ searchMax = 0
  /\ searched = None

\* The age of the init data: processMillis() now, the value of atlas.ts's
\* lastInit (the processMillis() of the last initAtlas that succeeded), and
\* what the last request found and did.
VARIABLES uptime, lastInitTime, servedLast

refreshVars == <<uptime, lastInitTime, servedLast>>

RefreshIdle ==
  /\ uptime = 0
  /\ lastInitTime = 0
  /\ servedLast = None

\* The gazetteer while it is reloaded: the entries of country_codes.txt and
\* us_counties.txt, the keys of code3ToName and the members of usCounties,
\* the step initGazetteer is at, the dictionaries as they were when the
\* re-init began, and what a request running meanwhile has read.
VARIABLES dataFiles, gazetteer, reloadPc, gazetteerBefore, observed

reloadVars == <<dataFiles, gazetteer, reloadPc, gazetteerBefore, observed>>

NoDictionaries == [code3ToName |-> {}, usCounties |-> {}]

ReloadIdle ==
  /\ dataFiles = NoDictionaries
  /\ gazetteer = NoDictionaries
  /\ reloadPc = "off"
  /\ gazetteerBefore = NoDictionaries
  /\ observed = None

\* gettyPreliminarySearch: the page last requested, the matches counted,
\* the flag set by a page with a link to the next one, the pages received
\* (their link, their new matches and the count after them) and whether the
\* search still pages, has returned or has thrown.
VARIABLES page, matchesCounted, theresMore, pages, paging

pagingVars == <<page, matchesCounted, theresMore, pages, paging>>

PagingIdle ==
  /\ page = 0
  /\ matchesCounted = 0
  /\ theresMore = FALSE
  /\ pages = <<>>
  /\ paging = "off"

\* gettySearchAux after the preliminary search: the number of preliminary
\* matches, the full records fetched so far (what each held and the seconds
\* since retrievalStartTime after it), the preliminary matches set into
\* matches, and whether the loop still fetches, has returned matches or has
\* thrown.
VARIABLES itemCount, fetchedRecords, retrievedMatches, retrieval

retrievalVars == <<itemCount, fetchedRecords, retrievedMatches, retrieval>>

RetrievalIdle ==
  /\ itemCount = 0
  /\ fetchedRecords = <<>>
  /\ retrievedMatches = {}
  /\ retrieval = "off"

\* The metrics objects remoteSourcesSearch creates and hands to the adapters
\* (results.geoNamesMetrics, results.gettyMetrics), where each adapter's aux
\* function stands, the promise timedPromise returned for it, and what
\* summarizeResults put into the result.
VARIABLES adapterMetrics, auxAt, timedResult, summarized

sharingVars == <<adapterMetrics, auxAt, timedResult, summarized>>

NoMetrics == [matchedCount |-> Undefined, failedSyntax |-> FALSE, retrievalTime |-> Undefined]

SharingIdle ==
  /\ adapterMetrics = [a \in Adapters |-> NoMetrics]
  /\ auxAt = [a \in Adapters |-> "none"]
  /\ timedResult = [a \in Adapters |-> NotLaunched]
  /\ summarized = None

(* ---------------------------------------------------------------------- *)
(* Merge-and-dedup as a function of its input                              *)
(* ---------------------------------------------------------------------- *)

\* The longest list of candidates tried.
MaxCandidates == 3

VARIABLES candidates, dedupLimit, passes

dedupVars == <<candidates, dedupLimit, passes>>

\* Candidates of one key that differ in state, rank and origin; the third
\* group are Getty's, which carry no rank.
StateFamily ==
  {NewLocation(1, 0, st, "FRA", 0, 0, "CET", "", rk, "P.PPL", src, 0) :
     st \in {0, 21, 22}, rk \in 1..2, src \in {1, SOURCE_GEONAMES_GENERAL_UPDATE}}
  \cup {NewLocation(1, 0, st, "FRA", 0, Undefined, "CET", UndefStr, Undefined, "P.PPL",
                    SOURCE_GETTY_UPDATE, 0) : st \in {21, 22}}

\* Candidates of one key that differ in county, rank and origin.
CountyFamily ==
  {NewLocation(1, co, 21, "USA", 0, 0, "EST", "", rk, "P.PPL", src, 0) :
     co \in {0, 31, 32}, rk \in 1..2, src \in {1, SOURCE_GEONAMES_GENERAL_UPDATE}}

\* Candidates of one key that may share a GeoNames id, with and without zip.
IdentityFamily ==
  {NewLocation(1, 0, 21, "USA", 0, 0, "EST", zip, rk, "P.PPL", src, id) :
     zip \in {"", "03060"}, rk \in 1..2, src \in {1, SOURCE_GEONAMES_GENERAL_UPDATE},
     id \in {0, 7}}

\* Candidates of one key that differ in place type and position.
TypeFamily ==
  {NewLocation(1, 0, 21, "USA", lat, 0, "EST", "", 1, pt, 1, 0) :
     lat \in {0, 2}, pt \in {"P.PPL", "P.PPLA", "A.ADM1", "A.ADM2", "T.PK", "T.MT"}}

\* Candidates of one key that differ in zone and position.
ZoneFamily ==
  {NewLocation(1, 0, 21, "USA", lat, 0, zone, "", 1, pt, 1, 0) :
     lat \in 0..2, zone \in {"EST", "EST?", UndefStr}, pt \in {"P.PPL", "T.PK"}}

\* Candidates of several keys and several spellings.
KeysFamily ==
  {NewLocation(city, 0, 21, "USA", 0, 0, "EST", "", rk, "P.PPL", 1, 0) :
     city \in {1, 2, 3, 5}, rk \in 1..3}

Families == {StateFamily, CountyFamily, IdentityFamily, TypeFamily, ZoneFamily, KeysFamily}

\* No request is being served while merge-and-dedup is exercised alone.
IdleRequest ==
  [remote |-> "skip", limit |-> <<>>, pt |-> FALSE, notrace |-> FALSE,
   parsed |-> [targetCity |-> 0, targetState |-> 0, postalCode |-> "", cityHasDigit |-> FALSE]]

HandlerIdle ==
  /\ request = IdleRequest
  /\ searchLog = NoSearchRow
  /\ HandlerStart("idle")

DedupIdle == candidates = <<>> /\ dedupLimit = 0 /\ passes = <<>>

InitDedup ==
  /\ \E family \in Families : \E n \in 1..MaxCandidates : candidates \in [1..n -> family]
  /\ dedupLimit \in {2, MAX_MATCH_LIMIT + 1}
  /\ passes = <<>>
  /\ HandlerIdle
  /\ LogIdle
  /\ RaceIdle
  /\ LimiterIdle
  /\ StartupIdle
  /\ ParseIdle
  /\ WriteBackIdle
  /\ LogRaceIdle
  /\ SearchIdle
  /\ RefreshIdle
  /\ ReloadIdle
  /\ PagingIdle
  /\ RetrievalIdle
  /\ SharingIdle

\* The handler's merge, dedup and sort of the candidates.
Dedup ==
  /\ passes = <<>>
  /\ passes' = <<mergeAndDedup(candidates, dedupLimit)>>
  /\ UNCHANGED <<candidates, dedupLimit>>
  /\ UNCHANGED <<handlerVars, logVars, raceVars, limiterVars, startupVars, parseVars, writeBackVars, logRaceVars, searchVars, refreshVars, reloadVars, pagingVars, retrievalVars, sharingVars>>

\* The list returned is fed back through merge-and-dedup.
DedupAgain ==
  /\ Len(passes) = 1
  /\ passes' = Append(passes, mergeAndDedup(passes[1], dedupLimit))
  /\ UNCHANGED <<candidates, dedupLimit>>
  /\ UNCHANGED <<handlerVars, logVars, raceVars, limiterVars, startupVars, parseVars, writeBackVars, logRaceVars, searchVars, refreshVars, reloadVars, pagingVars, retrievalVars, sharingVars>>

NextDedup == Dedup \/ DedupAgain

vars == <<handlerVars, dedupVars, logVars, raceVars, limiterVars, startupVars, parseVars, writeBackVars, logRaceVars, searchVars, refreshVars, reloadVars, pagingVars, retrievalVars, sharingVars>>

SpecDedup == InitDedup /\ [][NextDedup]_vars

(* ---------------------------------------------------------------------- *)
(* The search log over time                                                *)
(* ---------------------------------------------------------------------- *)

\* The largest hit count and age (in months) followed.
MaxHits == 3
MaxMonths == 13

\* Rows the table can hold for a search string.
LoggedRows ==
  {NoSearchRow}
  \cup [exists : {TRUE}, extended : BOOLEAN, hits : 1..2, matches : 0..1,
        months : {0, 11, 12}]

InitLog ==
  /\ logRow \in LoggedRows
  /\ logged = None
  /\ lookup = None
  /\ HandlerIdle
  /\ DedupIdle
  /\ RaceIdle
  /\ LimiterIdle
  /\ StartupIdle
  /\ ParseIdle
  /\ WriteBackIdle
  /\ LogRaceIdle
  /\ SearchIdle
  /\ RefreshIdle
  /\ ReloadIdle
  /\ PagingIdle
  /\ RetrievalIdle
  /\ SharingIdle

\* hasSearchBeenDoneRecently(connection, searchStr, extended)
LookupSearch ==
  /\ \E extended \in BOOLEAN :
       /\ lookup' = Some([extended |-> extended, row |-> logRow,
                          found |-> hasSearchBeenDoneRecently(logRow, extended)])
       /\ logRow' = logSearchResults(logRow, extended, NO_RESULTS_YET, FALSE).row
  /\ UNCHANGED logged
  /\ UNCHANGED <<handlerVars, dedupVars, raceVars, limiterVars, startupVars, parseVars, writeBackVars, logRaceVars, searchVars, refreshVars, reloadVars, pagingVars, retrievalVars, sharingVars>>

\* logSearchResults(connection, searchStr, extended, matchCount) with the
\* default dbUpdate; whether the UPDATE refreshes time_stamp is a matter of
\* the table's definition.
LogSearch ==
  /\ logRow.hits < MaxHits
  /\ \E extended \in BOOLEAN, matchCount \in 0..2, refreshed \in BOOLEAN :
       LET written == logSearchResults(logRow, extended, matchCount, TRUE).row
       IN /\ logRow' = IF refreshed THEN [written EXCEPT !.months = 0] ELSE written
          /\ logged' = Some([extended |-> extended, prior |-> logRow])
  /\ lookup' = None
  /\ UNCHANGED <<handlerVars, dedupVars, raceVars, limiterVars, startupVars, parseVars, writeBackVars, logRaceVars, searchVars, refreshVars, reloadVars, pagingVars, retrievalVars, sharingVars>>

\* A month goes by.
MonthPasses ==
  /\ logRow.exists
  /\ logRow.months < MaxMonths
  /\ logRow' = [logRow EXCEPT !.months = @ + 1]
  /\ lookup' = None
  /\ UNCHANGED logged
  /\ UNCHANGED <<handlerVars, dedupVars, raceVars, limiterVars, startupVars, parseVars, writeBackVars, logRaceVars, searchVars, refreshVars, reloadVars, pagingVars, retrievalVars, sharingVars>>

NextLog == LookupSearch \/ LogSearch \/ MonthPasses

SpecLog == InitLog /\ [][NextLog]_vars

(* ---------------------------------------------------------------------- *)
(* common.ts: timedPromise around the remote adapters                      *)
(* ---------------------------------------------------------------------- *)

\* The last second followed.
MaxClock == 111

maxTime(a) == IF a = "GeoNames" THEN MAX_TIME_GEONAMES ELSE MAX_TIME_GETTY
errorResponse(a) ==
  IF a = "GeoNames" THEN "GeoNames search timed out" ELSE "Getty search timed out"

\* What the adapter's own promise can settle with.
adapterOutcomes(a) ==
  IF a = "GeoNames"
  THEN {Fulfilled(geoNamesSearchAux(1, 0, FALSE, reply)) : reply \in GeoNamesReplies}
       \cup {Rejected("GeoNames error")}
  ELSE {Fulfilled(gettySearchAux(reply)) : reply \in GettyReplies}
       \cup {Rejected("Getty error")}

\* A race in which a later settlement replaces an earlier one.
raceLastWins(promise, settlement) == settlement

\* Promise.race([promise, timer]): the promise returned takes the first
\* settlement and keeps it.
race(promise, settlement) ==
  IF promise.state = "pending" THEN settlement ELSE promise

\* remoteSourcesSearch has pushed geoNamesSearch(...) and gettySearch(...)
\* for the adapters it was asked for.
InitRace ==
  /\ clock = 0
  /\ \E launched \in SUBSET Adapters :
       /\ adapterPromise = [a \in Adapters |-> IF a \in launched THEN Pending ELSE NotLaunched]
       /\ timedPromise = [a \in Adapters |-> IF a \in launched THEN Pending ELSE NotLaunched]
       /\ timer = [a \in Adapters |-> IF a \in launched THEN "armed" ELSE "none"]
  /\ first = [a \in Adapters |-> "none"]
  /\ joined = None
  /\ HandlerIdle
  /\ DedupIdle
  /\ LogIdle
  /\ LimiterIdle
  /\ StartupIdle
  /\ ParseIdle
  /\ WriteBackIdle
  /\ LogRaceIdle
  /\ SearchIdle
  /\ RefreshIdle
  /\ ReloadIdle
  /\ PagingIdle
  /\ RetrievalIdle
  /\ SharingIdle

\* The adapter's own promise settles, before or after the timer.
AdapterSettles ==
  /\ \E a \in Adapters :
       /\ adapterPromise[a].state = "pending"
       /\ \E outcome \in adapterOutcomes(a) :
            /\ adapterPromise' = [adapterPromise EXCEPT ![a] = outcome]
            /\ timedPromise' = [timedPromise EXCEPT ![a] = race(@, outcome)]
       /\ first' = [first EXCEPT ![a] = IF @ = "none" THEN "adapter" ELSE @]
  /\ UNCHANGED <<clock, timer, joined>>
  /\ UNCHANGED <<handlerVars, dedupVars, logVars, limiterVars, startupVars, parseVars, writeBackVars, logRaceVars, searchVars, refreshVars, reloadVars, pagingVars, retrievalVars, sharingVars>>

\* setTimeout(() => reject(errorResponse), maxTime)
TimerFires ==
  /\ \E a \in Adapters :
       /\ timer[a] = "armed"
       /\ clock = maxTime(a)
       /\ timer' = [timer EXCEPT ![a] = "fired"]
       /\ timedPromise' = [timedPromise EXCEPT ![a] = race(@, Rejected(errorResponse(a)))]
       /\ first' = [first EXCEPT ![a] = IF @ = "none" THEN "timer" ELSE @]
  /\ UNCHANGED <<clock, adapterPromise, joined>>
  /\ UNCHANGED <<handlerVars, dedupVars, logVars, limiterVars, startupVars, parseVars, writeBackVars, logRaceVars, searchVars, refreshVars, reloadVars, pagingVars, retrievalVars, sharingVars>>

\* A second goes by; a timer that is due fires first.
Tick ==
  /\ clock < MaxClock
  /\ \A a \in Adapters : timer[a] = "armed" => clock < maxTime(a)
  /\ clock' = clock + 1
  /\ UNCHANGED <<adapterPromise, timer, timedPromise, first, joined>>
  /\ UNCHANGED <<handlerVars, dedupVars, logVars, limiterVars, startupVars, parseVars, writeBackVars, logRaceVars, searchVars, refreshVars, reloadVars, pagingVars, retrievalVars, sharingVars>>

\* await Promise.all(promises.map(promise => promise.catch(err => err)))
\* and the rest of remoteSourcesSearch.
RaceJoin ==
  /\ joined = None
  /\ \A a \in Adapters : timedPromise[a].state # "pending"
  /\ joined' = Some(remoteSourcesSearch(timedPromise["GeoNames"], timedPromise["Getty"]))
  /\ UNCHANGED <<clock, adapterPromise, timer, timedPromise, first>>
  /\ UNCHANGED <<handlerVars, dedupVars, logVars, limiterVars, startupVars, parseVars, writeBackVars, logRaceVars, searchVars, refreshVars, reloadVars, pagingVars, retrievalVars, sharingVars>>

NextRace == AdapterSettles \/ TimerFires \/ Tick \/ RaceJoin

\* Time advances, due timers fire and the awaiting function resumes.
SpecRace ==
  /\ InitRace
  /\ [][NextRace]_vars
  /\ WF_vars(Tick)
  /\ WF_vars(TimerFires)
  /\ WF_vars(RaceJoin)

(* ---------------------------------------------------------------------- *)
(* The IP-lookup service (router.get('/json/*'))                           *)
(* ---------------------------------------------------------------------- *)

MAX_PER_MINUTE == 140
WINDOW_MILLIS == 60000

\* The number of requests followed after the initial burst.
MaxAnswered == 5

\* The instants (ms) at which requests arrive.
Instants == {1, 2, 59999, 60000, 60001, 60002, 120001}

\* The test with the length compared to one more than the list can hold.
busyAtLengthPlusOne(list, time) ==
  Len(list) = MAX_PER_MINUTE + 1 /\ list[1] > time - WINDOW_MILLIS

\* times.length === MAX_PER_MINUTE && times[0] > now - 60000
busy(list, time) ==
  Len(list) = MAX_PER_MINUTE /\ list[1] > time - WINDOW_MILLIS

\* times.push(now); if (times.length > MAX_PER_MINUTE) times.shift()
pushed(list, time) ==
  IF Len(list) + 1 > MAX_PER_MINUTE THEN Tail(Append(list, time)) ELSE Append(list, time)

\* The service after a burst of requests in its first two milliseconds,
\* none of which was refused.
InitLimiter ==
  /\ \E total \in {0, 1, 138, 139, 140} : \E early \in {0, 1, total - 1, total} :
       /\ early \in 0..total
       /\ times = [i \in 1..total |-> IF i <= early THEN 0 ELSE 1]
  /\ forwarded = times
  /\ now = 1
  /\ lastRequest = None
  /\ answered = 0
  /\ HandlerIdle
  /\ DedupIdle
  /\ LogIdle
  /\ RaceIdle
  /\ StartupIdle
  /\ ParseIdle
  /\ WriteBackIdle
  /\ LogRaceIdle
  /\ SearchIdle
  /\ RefreshIdle
  /\ ReloadIdle
  /\ PagingIdle
  /\ RetrievalIdle
  /\ SharingIdle

\* router.get('/json/*'): a request for /json/... is refused or forwarded.
LookupRequest ==
  /\ answered < MaxAnswered
  /\ answered' = answered + 1
  /\ lastRequest' = Some([now |-> now, busy |-> busy(times, now), times |-> times,
                          forwarded |-> forwarded])
  /\ IF busy(times, now)
     THEN UNCHANGED <<times, forwarded>>
     ELSE /\ times' = pushed(times, now)
          /\ forwarded' = Append(forwarded, now)
  /\ UNCHANGED now
  /\ UNCHANGED <<handlerVars, dedupVars, logVars, raceVars, startupVars, parseVars, writeBackVars, logRaceVars, searchVars, refreshVars, reloadVars, pagingVars, retrievalVars, sharingVars>>

\* Date.now() advances.
TimePasses ==
  /\ \E later \in Instants : later > now /\ now' = later
  /\ UNCHANGED <<times, forwarded, lastRequest, answered>>
  /\ UNCHANGED <<handlerVars, dedupVars, logVars, raceVars, startupVars, parseVars, writeBackVars, logRaceVars, searchVars, refreshVars, reloadVars, pagingVars, retrievalVars, sharingVars>>

NextLimiter == LookupRequest \/ TimePasses

SpecLimiter == InitLimiter /\ [][NextLimiter]_vars

(* ---------------------------------------------------------------------- *)
(* app.ts, atlas.ts, gazetteer.ts: start-up and re-initialization          *)
(* ---------------------------------------------------------------------- *)

\* The number of runs of initAtlas followed.
MaxInits == 3

\* The step at which a run fails: 0 for none, else a position in InitSteps.
Failures == 0..Len(InitSteps)

\* initGazetteer(): flag codes, then the three files, each loaded by run
\* `run` unless an earlier step or the step itself failed; the catch logs
\* the error and the function returns normally.
initGazetteer(dicts, run, failure) ==
  [k \in 1..Len(InitSteps) |->
     IF k >= 2 /\ (failure = 0 \/ k < failure) THEN run ELSE dicts[k]]

\* initAtlas(re_init): initTimezones and initGazetteer inside the try;
\* only a failure of initTimezones reaches the catch, which rethrows unless
\* re_init.
initAtlas(dicts, last, run, failure, re_init) ==
  IF failure = 1
  THEN [dictionaries |-> dicts, lastInit |-> last, thrown |-> ~re_init]
  ELSE [dictionaries |-> initGazetteer([dicts EXCEPT ![1] = run], run, failure),
        lastInit |-> run, thrown |-> FALSE]

InitStartup ==
  /\ StartupIdle
  /\ HandlerIdle
  /\ DedupIdle
  /\ LogIdle
  /\ RaceIdle
  /\ LimiterIdle
  /\ ParseIdle
  /\ WriteBackIdle
  /\ LogRaceIdle
  /\ SearchIdle
  /\ RefreshIdle
  /\ ReloadIdle
  /\ PagingIdle
  /\ RetrievalIdle
  /\ SharingIdle

\* app.ts: await initAtlas(), then app.listen, or process.exit(1).
Startup ==
  /\ server = "starting"
  /\ \E failure \in Failures :
       LET r == initAtlas(dictionaries, lastInit, inits + 1, failure, FALSE)
       IN /\ dictionaries' = r.dictionaries
          /\ lastInit' = r.lastInit
          /\ server' = IF r.thrown THEN "exited" ELSE "listening"
          /\ startupFailure' = failure
  /\ inits' = inits + 1
  /\ UNCHANGED reInit
  /\ UNCHANGED <<handlerVars, dedupVars, logVars, raceVars, limiterVars, parseVars, writeBackVars, logRaceVars, searchVars, refreshVars, reloadVars, pagingVars, retrievalVars, sharingVars>>

\* A request that finds the init data older than REFRESH_TIME_FOR_INIT_DATA:
\* await initAtlas(true), after which the request goes on.
RequestReInit ==
  /\ server = "listening"
  /\ inits < MaxInits
  /\ \E failure \in Failures :
       LET r == initAtlas(dictionaries, lastInit, inits + 1, failure, TRUE)
       IN /\ dictionaries' = r.dictionaries
          /\ lastInit' = r.lastInit
          /\ reInit' = Some([failure |-> failure, before |-> dictionaries,
                             continued |-> ~r.thrown])
  /\ inits' = inits + 1
  /\ UNCHANGED <<server, startupFailure>>
  /\ UNCHANGED <<handlerVars, dedupVars, logVars, raceVars, limiterVars, parseVars, writeBackVars, logRaceVars, searchVars, refreshVars, reloadVars, pagingVars, retrievalVars, sharingVars>>

NextStartup == Startup \/ RequestReInit

SpecStartup == InitStartup /\ [][NextStartup]_vars

(* ---------------------------------------------------------------------- *)
(* atlas_database.ts: logSearchResults of concurrent requests              *)
(* ---------------------------------------------------------------------- *)

\* The number of requests that log the search at the same time.
MaxLoggers == 2

InitLogRace ==
  /\ rowAtStart \in {row \in LoggedRows : row.months = 0}
  /\ sharedRow = rowAtStart
  /\ loggers = [p \in 1..MaxLoggers |->
                  [pc |-> "select", extended |-> FALSE, matchCount |-> 0, read |-> NoSearchRow]]
  /\ duplicateInserts = 0
  /\ HandlerIdle
  /\ DedupIdle
  /\ LogIdle
  /\ RaceIdle
  /\ LimiterIdle
  /\ StartupIdle
  /\ ParseIdle
  /\ WriteBackIdle
  /\ SearchIdle
  /\ RefreshIdle
  /\ ReloadIdle
  /\ PagingIdle
  /\ RetrievalIdle
  /\ SharingIdle

\* const results = await connection.queryResults('SELECT ...'): the request
\* reads the row and waits.
LogSelect(p) ==
  /\ loggers[p].pc = "select"
  /\ \E extended \in BOOLEAN, matchCount \in 0..1 :
       loggers' = [loggers EXCEPT ![p] = [pc |-> "write", extended |-> extended,
                                         matchCount |-> matchCount, read |-> sharedRow]]
  /\ UNCHANGED <<rowAtStart, sharedRow, duplicateInserts>>
  /\ UNCHANGED <<handlerVars, dedupVars, logVars, raceVars, limiterVars, startupVars, parseVars, writeBackVars, searchVars, refreshVars, reloadVars, pagingVars, retrievalVars, sharingVars>>

\* await pool.queryResults(query, values): the INSERT or the UPDATE made up
\* from the row read reaches the table. An INSERT for a search that has a
\* row by now leaves that row as it is.
LogWrite(p) ==
  /\ loggers[p].pc = "write"
  /\ LET written == logSearchResults(loggers[p].read, loggers[p].extended,
                                     loggers[p].matchCount, TRUE).row
     IN IF ~loggers[p].read.exists
        THEN IF sharedRow.exists
             THEN /\ duplicateInserts' = duplicateInserts + 1
                  /\ UNCHANGED sharedRow
             ELSE /\ sharedRow' = written
                  /\ UNCHANGED duplicateInserts
        ELSE /\ sharedRow' = [sharedRow EXCEPT !.hits = written.hits,
                                               !.extended = written.extended]
             /\ UNCHANGED duplicateInserts
  /\ loggers' = [loggers EXCEPT ![p].pc = "done"]
  /\ UNCHANGED rowAtStart
  /\ UNCHANGED <<handlerVars, dedupVars, logVars, raceVars, limiterVars, startupVars, parseVars, writeBackVars, searchVars, refreshVars, reloadVars, pagingVars, retrievalVars, sharingVars>>

NextLogRace == \E p \in 1..MaxLoggers : LogSelect(p) \/ LogWrite(p)

SpecLogRace == InitLogRace /\ [][NextLogRace]_vars

(* ---------------------------------------------------------------------- *)
(* atlas.ts: the age of the init data                                      *)
(* ---------------------------------------------------------------------- *)

REFRESH_TIME_FOR_INIT_DATA == 86400
MillisPerSecond == 1000
MillisPerHour == 3600 * MillisPerSecond

\* The hours and the odd seconds of process time followed.
MaxHours == 50
MaxSeconds == 3

\* if (startTime / 1000 > lastInit + REFRESH_TIME_FOR_INIT_DATA) with the
\* start time taken in seconds and lastInit taken as it is.
initDataIsOld(startTime, last) ==
  startTime \div MillisPerSecond > last + REFRESH_TIME_FOR_INIT_DATA

\* The server listens after an initAtlas() that took one or two seconds
\* of process time.
InitRefresh ==
  /\ lastInitTime \in {MillisPerSecond, 2 * MillisPerSecond}
  /\ uptime = lastInitTime
  /\ servedLast = None
  /\ HandlerIdle
  /\ DedupIdle
  /\ LogIdle
  /\ RaceIdle
  /\ LimiterIdle
  /\ StartupIdle
  /\ ParseIdle
  /\ WriteBackIdle
  /\ LogRaceIdle
  /\ SearchIdle
  /\ ReloadIdle
  /\ PagingIdle
  /\ RetrievalIdle
  /\ SharingIdle

\* Process time goes by, by the second and by the hour (whole seconds, so
\* that startTime / 1000 is a whole number).
Elapse ==
  /\ \E step \in {MillisPerSecond, MillisPerHour} :
       /\ uptime' = uptime + step
       /\ uptime' \div MillisPerHour <= MaxHours
       /\ uptime' % MillisPerHour <= MaxSeconds * MillisPerSecond
  /\ UNCHANGED <<lastInitTime, servedLast>>
  /\ UNCHANGED <<handlerVars, dedupVars, logVars, raceVars, limiterVars, startupVars, parseVars, writeBackVars, logRaceVars, searchVars, reloadVars, pagingVars, retrievalVars, sharingVars>>

\* A request: const startTime = processMillis(), and in the handler
\* `await initAtlas(true)` when the init data is old; initAtlas sets lastInit
\* to processMillis() unless initTimezones fails.
RefreshRequest ==
  /\ \E initFails \in BOOLEAN :
       LET startTime == uptime
           old == initDataIsOld(startTime, lastInitTime)
       IN /\ servedLast' = Some([startTime |-> startTime, lastInit |-> lastInitTime,
                                 reInit |-> old])
          /\ lastInitTime' = IF old /\ ~initFails THEN uptime ELSE lastInitTime
  /\ UNCHANGED uptime
  /\ UNCHANGED <<handlerVars, dedupVars, logVars, raceVars, limiterVars, startupVars, parseVars, writeBackVars, logRaceVars, searchVars, reloadVars, pagingVars, retrievalVars, sharingVars>>

NextRefresh == Elapse \/ RefreshRequest

SpecRefresh == InitRefresh /\ [][NextRefresh]_vars

(* ---------------------------------------------------------------------- *)
(* gazetteer.ts: initGazetteer run again                                   *)
(* ---------------------------------------------------------------------- *)

\* The entries a data file may hold.
FileEntries == {"a", "b"}

DataFiles == [code3ToName : SUBSET FileEntries, usCounties : SUBSET FileEntries]

\* The server listens with the dictionaries that the first initGazetteer
\* filled from the data files.
InitReload ==
  /\ dataFiles \in DataFiles
  /\ gazetteer = dataFiles
  /\ reloadPc = "listening"
  /\ gazetteerBefore = gazetteer
  /\ observed = None
  /\ HandlerIdle
  /\ DedupIdle
  /\ LogIdle
  /\ RaceIdle
  /\ LimiterIdle
  /\ StartupIdle
  /\ ParseIdle
  /\ WriteBackIdle
  /\ LogRaceIdle
  /\ SearchIdle
  /\ RefreshIdle
  /\ PagingIdle
  /\ RetrievalIdle
  /\ SharingIdle

\* The data files are replaced while the server runs.
EditFiles ==
  /\ reloadPc = "listening"
  /\ dataFiles' \in DataFiles \ {dataFiles}
  /\ UNCHANGED <<gazetteer, reloadPc, gazetteerBefore, observed>>
  /\ UNCHANGED <<handlerVars, dedupVars, logVars, raceVars, limiterVars, startupVars, parseVars, writeBackVars, logRaceVars, searchVars, refreshVars, pagingVars, retrievalVars, sharingVars>>

\* A request calls initAtlas(true): initTimezones and initFlagCodes are
\* awaited, then country_codes.txt is being read.
ReInitBegins ==
  /\ reloadPc = "listening"
  /\ reloadPc' = "country_codes"
  /\ gazetteerBefore' = gazetteer
  /\ UNCHANGED <<dataFiles, gazetteer, observed>>
  /\ UNCHANGED <<handlerVars, dedupVars, logVars, raceVars, limiterVars, startupVars, parseVars, writeBackVars, logRaceVars, searchVars, refreshVars, pagingVars, retrievalVars, sharingVars>>

\* country_codes.txt has been read: lines.forEach assigns code3ToName[code3]
\* of every line into the exported record; or the read fails and the catch
\* of initGazetteer ends the re-init.
LoadCountryCodes ==
  /\ reloadPc = "country_codes"
  /\ \/ /\ gazetteer' = [gazetteer EXCEPT !.code3ToName = @ \cup dataFiles.code3ToName]
        /\ reloadPc' = "us_counties"
     \/ /\ reloadPc' = "reloaded"
        /\ UNCHANGED gazetteer
  /\ UNCHANGED <<dataFiles, gazetteerBefore, observed>>
  /\ UNCHANGED <<handlerVars, dedupVars, logVars, raceVars, limiterVars, startupVars, parseVars, writeBackVars, logRaceVars, searchVars, refreshVars, pagingVars, retrievalVars, sharingVars>>

\* us_counties.txt has been read: lines.forEach(line => usCounties.add(...)).
LoadCounties ==
  /\ reloadPc = "us_counties"
  /\ \/ gazetteer' = [gazetteer EXCEPT !.usCounties = @ \cup dataFiles.usCounties]
     \/ UNCHANGED gazetteer
  /\ reloadPc' = "reloaded"
  /\ UNCHANGED <<dataFiles, gazetteerBefore, observed>>
  /\ UNCHANGED <<handlerVars, dedupVars, logVars, raceVars, limiterVars, startupVars, parseVars, writeBackVars, logRaceVars, searchVars, refreshVars, pagingVars, retrievalVars, sharingVars>>

\* Another request runs between two awaits of the re-init and reads the
\* dictionaries.
RequestReads ==
  /\ reloadPc \in {"country_codes", "us_counties", "reloaded"}
  /\ observed = None
  /\ observed' = Some(gazetteer)
  /\ UNCHANGED <<dataFiles, gazetteer, reloadPc, gazetteerBefore>>
  /\ UNCHANGED <<handlerVars, dedupVars, logVars, raceVars, limiterVars, startupVars, parseVars, writeBackVars, logRaceVars, searchVars, refreshVars, pagingVars, retrievalVars, sharingVars>>

NextReload == EditFiles \/ ReInitBegins \/ LoadCountryCodes \/ LoadCounties \/ RequestReads

SpecReload == InitReload /\ [][NextReload]_vars

(* ---------------------------------------------------------------------- *)
(* atlas.ts: gettyPreliminarySearch, page by page                          *)
(* ---------------------------------------------------------------------- *)

\* What a page of the site's result list holds: whether it links to a next
\* page (global_next.gif) and how many new matching places it lists.
PageReplies == [next : BOOLEAN, found : {0, 5, 12, 25}]

\* } while (theresMore && page < 6 && matchCount < 50 &&
\*          !(page > 1 && matchCount >= page * 12))
keepsPaging(more, n, count) ==
  more /\ n < 6 /\ count < 50 /\ ~(n > 1 /\ count >= n * 12)

InitPaging ==
  /\ page = 0
  /\ matchesCounted = 0
  /\ theresMore = FALSE
  /\ pages = <<>>
  /\ paging = "paging"
  /\ HandlerIdle
  /\ DedupIdle
  /\ LogIdle
  /\ RaceIdle
  /\ LimiterIdle
  /\ StartupIdle
  /\ ParseIdle
  /\ WriteBackIdle
  /\ LogRaceIdle
  /\ SearchIdle
  /\ RefreshIdle
  /\ ReloadIdle
  /\ RetrievalIdle
  /\ SharingIdle

\* One turn of the do loop: ++page, the page is fetched and scanned, and
\* the loop condition is tested; getWebPage may fail, and a page without a
\* place when none has been found yet may be a server error or unreadable.
RequestPage ==
  /\ paging = "paging"
  /\ page' = page + 1
  /\ \/ \E reply \in PageReplies :
          /\ theresMore' = (theresMore \/ reply.next)
          /\ matchesCounted' = matchesCounted + reply.found
          /\ pages' = Append(pages, [next |-> reply.next, found |-> reply.found,
                                     matchCount |-> matchesCounted'])
          /\ paging' = IF keepsPaging(theresMore', page', matchesCounted')
                       THEN "paging" ELSE "returned"
     \/ /\ paging' = "failed"
        /\ UNCHANGED <<theresMore, matchesCounted, pages>>
  /\ UNCHANGED <<handlerVars, dedupVars, logVars, raceVars, limiterVars, startupVars, parseVars, writeBackVars, logRaceVars, searchVars, refreshVars, reloadVars, retrievalVars, sharingVars>>

NextPaging == RequestPage

SpecPaging == InitPaging /\ [][NextPaging]_vars

(* ---------------------------------------------------------------------- *)
(* atlas.ts: gettySearchAux, record by record                              *)
(* ---------------------------------------------------------------------- *)

PREFERRED_RETRIEVAL_TIME_GETTY == 40

\* The largest number of preliminary matches followed.
MaxItems == 3

\* The seconds one getWebPage of a full record may take.
FetchSeconds == {1, 15, 41}

\* What the page of a full record holds: its ID line with both
\* coordinates, its ID line without them, or no ID line for the key.
RecordPages == {"coordinates", "id only", "unparsed"}

\* The loop goes on whatever time the retrieval has taken.
budgetNeverSpent(totalTimeSoFar) == FALSE

\* remainingTime = PREFERRED_RETRIEVAL_TIME_GETTY * 1000 - totalTimeSoFar;
\* if (remainingTime <= 0) break   (in seconds)
budgetSpent(totalTimeSoFar) == PREFERRED_RETRIEVAL_TIME_GETTY - totalTimeSoFar <= 0

secondsSoFar(records) == IF records = <<>> THEN 0 ELSE records[Len(records)].seconds

\* gettyPreliminarySearch has returned its places; with none of them the
\* loop is not entered and the empty map is returned.
InitRetrieval ==
  /\ itemCount \in 0..MaxItems
  /\ fetchedRecords = <<>>
  /\ retrievedMatches = {}
  /\ retrieval = IF itemCount = 0 THEN "returned" ELSE "fetching"
  /\ HandlerIdle
  /\ DedupIdle
  /\ LogIdle
  /\ RaceIdle
  /\ LimiterIdle
  /\ StartupIdle
  /\ ParseIdle
  /\ WriteBackIdle
  /\ LogRaceIdle
  /\ SearchIdle
  /\ RefreshIdle
  /\ ReloadIdle
  /\ PagingIdle
  /\ SharingIdle

\* One turn of the for loop: the full record of the next key is fetched and
\* scanned, the place is set into matches when both coordinates were read,
\* and the loop breaks when the time is spent or ends after the last key.
FetchRecord ==
  /\ retrieval = "fetching"
  /\ \/ \E took \in FetchSeconds, held \in RecordPages :
          LET i == Len(fetchedRecords) + 1
              seconds == secondsSoFar(fetchedRecords) + took
          IN /\ fetchedRecords' = Append(fetchedRecords, [held |-> held, seconds |-> seconds])
             /\ retrievedMatches' = IF held = "coordinates" THEN retrievedMatches \cup {i}
                                    ELSE retrievedMatches
             /\ retrieval' = IF held = "unparsed" THEN "failed"
                             ELSE IF budgetSpent(seconds) \/ i = itemCount THEN "returned"
                             ELSE "fetching"
     \/ /\ retrieval' = "failed"
        /\ UNCHANGED <<fetchedRecords, retrievedMatches>>
  /\ UNCHANGED itemCount
  /\ UNCHANGED <<handlerVars, dedupVars, logVars, raceVars, limiterVars, startupVars, parseVars, writeBackVars, logRaceVars, searchVars, refreshVars, reloadVars, pagingVars, sharingVars>>

NextRetrieval == FetchRecord

SpecRetrieval == InitRetrieval /\ [][NextRetrieval]_vars

(* ---------------------------------------------------------------------- *)
(* atlas.ts, geo-names-search.ts: the metrics objects the adapters share   *)
(* ---------------------------------------------------------------------- *)

\* The most matches an adapter counts.
MaxMatched == 2

RetrievalTimes == {3, 30}

\* The map an adapter resolves with, by its size.
mapOf(size) == [k \in 1..size |-> k]

\* summarizeResults reads the metrics whenever the object exists.
readsMetricsDespiteError(results, a) ==
  IF a = "GeoNames" THEN results.geoNamesMetrics ELSE results.gettyMetrics

\* if (remoteResults.geoNamesMetrics && !remoteResults.geoNamesError)
\* if (remoteResults.gettyMetrics && !remoteResults.gettyError)
readsMetrics(results, a) ==
  IF a = "GeoNames"
  THEN results.geoNamesMetrics /\ Falsy(results.geoNamesError)
  ELSE results.gettyMetrics /\ Falsy(results.gettyError)

\* What the handler reads of the remote phase for its response once every
\* launched adapter's promise has settled: the matches to merge, the
\* values the info lines print, the error and the warning.
readForResponse(promises, metrics, extended) ==
  LET results == remoteSourcesSearch(promises["GeoNames"], promises["Getty"]).results
      summary == summarizeResults(Some(results), "", extended)
  IN [extended |-> extended,
      geoNamesMatches |-> results.geoNamesMatches,
      gettyMatches |-> results.gettyMatches,
      infoLines |-> [a \in Adapters |->
                       IF readsMetrics(results, a) THEN Some(metrics[a]) ELSE None],
      error |-> summary.error,
      warning |-> summary.warning]

allSettled == \A a \in Adapters : timedResult[a].state # "pending"

\* remoteSourcesSearch has created the metrics objects and pushed the
\* adapters' promises; geoNamesSearchAux has run to its first await.
InitSharing ==
  /\ \E launched \in SUBSET Adapters :
       /\ auxAt = [a \in Adapters |-> IF a \in launched THEN "running" ELSE "none"]
       /\ timedResult = [a \in Adapters |-> IF a \in launched THEN Pending ELSE NotLaunched]
       /\ adapterMetrics =
            [a \in Adapters |->
               IF a = "GeoNames" /\ a \in launched
               THEN [NoMetrics EXCEPT !.matchedCount = 0]
               ELSE NoMetrics]
  /\ summarized = None
  /\ HandlerIdle
  /\ DedupIdle
  /\ LogIdle
  /\ RaceIdle
  /\ LimiterIdle
  /\ StartupIdle
  /\ ParseIdle
  /\ WriteBackIdle
  /\ LogRaceIdle
  /\ SearchIdle
  /\ RefreshIdle
  /\ ReloadIdle
  /\ PagingIdle
  /\ RetrievalIdle

\* ++metrics.matchedCount in geoNamesSearchAux, metrics.failedSyntax =
\* searchStr in gettyPreliminarySearch: the aux function goes on whether or
\* not its timer has fired.
AuxWrites(a) ==
  /\ auxAt[a] = "running"
  /\ IF a = "GeoNames"
     THEN /\ adapterMetrics[a].matchedCount < MaxMatched
          /\ adapterMetrics' = [adapterMetrics EXCEPT ![a].matchedCount = @ + 1]
     ELSE /\ ~adapterMetrics[a].failedSyntax
          /\ adapterMetrics' = [adapterMetrics EXCEPT ![a].failedSyntax = TRUE]
  /\ UNCHANGED <<auxAt, timedResult, summarized>>
  /\ UNCHANGED <<handlerVars, dedupVars, logVars, raceVars, limiterVars, startupVars, parseVars, writeBackVars, logRaceVars, searchVars, refreshVars, reloadVars, pagingVars, retrievalVars>>

\* The aux function writes its last metrics and returns its map.
AuxReturns(a) ==
  /\ auxAt[a] = "running"
  /\ \E took \in RetrievalTimes, matched \in 0..MaxMatched :
       LET size == IF a = "GeoNames" THEN adapterMetrics[a].matchedCount ELSE matched
       IN /\ adapterMetrics' = [adapterMetrics EXCEPT ![a].matchedCount = size,
                                                       ![a].retrievalTime = took]
          /\ timedResult' = [timedResult EXCEPT ![a] = race(@, Fulfilled(mapOf(size)))]
  /\ auxAt' = [auxAt EXCEPT ![a] = "returned"]
  /\ UNCHANGED summarized
  /\ UNCHANGED <<handlerVars, dedupVars, logVars, raceVars, limiterVars, startupVars, parseVars, writeBackVars, logRaceVars, searchVars, refreshVars, reloadVars, pagingVars, retrievalVars>>

\* The aux function throws.
AuxThrows(a) ==
  /\ auxAt[a] = "running"
  /\ auxAt' = [auxAt EXCEPT ![a] = "threw"]
  /\ timedResult' = [timedResult EXCEPT ![a] =
                       race(@, Rejected(IF a = "GeoNames" THEN "GeoNames error" ELSE "Getty error"))]
  /\ UNCHANGED <<adapterMetrics, summarized>>
  /\ UNCHANGED <<handlerVars, dedupVars, logVars, raceVars, limiterVars, startupVars, parseVars, writeBackVars, logRaceVars, searchVars, refreshVars, reloadVars, pagingVars, retrievalVars>>

\* setTimeout(() => reject(errorResponse), maxTime) while the adapter has
\* not settled.
TimeoutFires(a) ==
  /\ timedResult[a].state = "pending"
  /\ timedResult' = [timedResult EXCEPT ![a] = race(@, Rejected(errorResponse(a)))]
  /\ UNCHANGED <<adapterMetrics, auxAt, summarized>>
  /\ UNCHANGED <<handlerVars, dedupVars, logVars, raceVars, limiterVars, startupVars, parseVars, writeBackVars, logRaceVars, searchVars, refreshVars, reloadVars, pagingVars, retrievalVars>>

\* The await of remoteSourcesSearch returns and the handler runs on,
\* without another await, through the merge and summarizeResults.
Summarize ==
  /\ summarized = None
  /\ allSettled
  /\ \E extended \in BOOLEAN :
       summarized' = Some(readForResponse(timedResult, adapterMetrics, extended))
  /\ UNCHANGED <<adapterMetrics, auxAt, timedResult>>
  /\ UNCHANGED <<handlerVars, dedupVars, logVars, raceVars, limiterVars, startupVars, parseVars, writeBackVars, logRaceVars, searchVars, refreshVars, reloadVars, pagingVars, retrievalVars>>

NextSharing ==
  \/ \E a \in Adapters : AuxWrites(a)
  \/ \E a \in Adapters : AuxReturns(a)
  \/ \E a \in Adapters : AuxThrows(a)
  \/ \E a \in Adapters : TimeoutFires(a)
  \/ Summarize

SpecSharing == InitSharing /\ [][NextSharing]_vars

(* ---------------------------------------------------------------------- *)
(* atlas_database.ts: doDataBaseSearch on its own                          *)
(* ---------------------------------------------------------------------- *)

\* The largest number of rows of the table searched.
MaxSearchRows == 3

\* Rows that the search for city 1 matches exactly (key 1, with the postal
\* code), by their beginning (key 2) or by sound (key 4), ranked or not;
\* each row lies at a latitude of its own.
SearchableRows(item_no) ==
  {AtlasRow(item_no, key, key, 0, 21, item_no, IF key = 1 THEN "03060" ELSE "", rank,
            SOUNDEX(key), 1, 0) :
     key \in {1, 2, 4}, rank \in {0, 3}}

\* Searches for city 1, for a city no row matches, and for the postal code.
SearchesFor ==
  {parsed \in ParsedSearches : parsed.targetState = 0 /\ (parsed.targetCity # 1 \/ Falsy(parsed.postalCode))}

InitSearch ==
  /\ \E n \in 1..MaxSearchRows :
       /\ searchRows \in [1..n -> UNION {SearchableRows(k) : k \in 1..n}]
       /\ \A k \in 1..n : searchRows[k].item_no = k
  /\ searchFor \in SearchesFor
  /\ searchMax \in 1..2
  /\ searched = None
  /\ HandlerIdle
  /\ DedupIdle
  /\ LogIdle
  /\ RaceIdle
  /\ LimiterIdle
  /\ StartupIdle
  /\ ParseIdle
  /\ WriteBackIdle
  /\ LogRaceIdle
  /\ RefreshIdle
  /\ ReloadIdle
  /\ PagingIdle
  /\ RetrievalIdle
  /\ SharingIdle

\* dbMatches = await doDataBaseSearch(connection, parsed, extend, limit + 1)
Search ==
  /\ searched = None
  /\ searched' = Some(searchPasses(searchRows, AtlasAltNames, searchFor, FALSE, searchMax))
  /\ UNCHANGED <<searchRows, searchFor, searchMax>>
  /\ UNCHANGED <<handlerVars, dedupVars, logVars, raceVars, limiterVars, startupVars, parseVars, writeBackVars, logRaceVars, refreshVars, reloadVars, pagingVars, retrievalVars, sharingVars>>

NextSearch == Search

SpecSearch == InitSearch /\ [][NextSearch]_vars

(* ---------------------------------------------------------------------- *)
(* gazetteer.ts: parseSearchString                                         *)
(* ---------------------------------------------------------------------- *)

\* A string is the sequence of its comma-separated parts, a part the
\* sequence of its words; a comma follows the last word of every part but
\* the last. A word is letters only ("alpha"; the word with n = 2 is "nh" or
\* "NH"), five digits ("zip"), five digits-four digits ("zip4"), letters
\* and digits without five digits in a row ("code", as "5th" or "sw1a"), or
\* one digit ("digit"); up says whether its letters are upper case.
Word(cls, n, up) == [cls |-> cls, n |-> n, up |-> up]

Words ==
  {Word("alpha", 1, FALSE), Word("alpha", 2, FALSE), Word("alpha", 2, TRUE),
   Word("zip", 1, TRUE), Word("zip4", 1, TRUE), Word("code", 1, FALSE),
   Word("digit", 1, TRUE)}

\* The largest number of words of a query.
MaxWords == 3

\* q.split(',') of the words ws with a comma after each word in commas.
RECURSIVE splitFrom(_, _, _, _)
splitFrom(ws, commas, i, parts) ==
  IF i > Len(ws) THEN parts
  ELSE LET n == Len(parts)
           grown == [parts EXCEPT ![n] = Append(@, ws[i])]
       IN splitFrom(ws, commas, i + 1,
                    IF i \in commas THEN Append(grown, <<>>) ELSE grown)

split(ws, commas) == splitFrom(ws, commas, 1, << <<>> >>)

\* US_ZIP_PATTERN.exec(str) and its $[1].
usZip(str) == \E k \in 1..Len(str) : str[k].cls \in {"zip", "zip4"}
zipOf(str) ==
  LET k == MinOf({j \in 1..Len(str) : str[j].cls \in {"zip", "zip4"}})
  IN <<Word("zip", str[k].n, TRUE)>>

\* /\d/.test(str) && OTHER_POSTAL_CODE_PATTERN.exec(str)
otherPostal(str) ==
  /\ \E k \in 1..Len(str) : str[k].cls # "alpha"
  /\ \E k \in 1..Len(str) : str[k].cls # "digit"

\* str.toUpperCase() and makePlainASCII_UC(str)
upperCase(str) == [k \in 1..Len(str) |-> [str[k] EXCEPT !.up = TRUE]]

\* longStates[end] || code3ToName[end]
isStateOrCountry(word) == word = Word("alpha", 2, TRUE)

\* q.split(/\s+/) without the pieces that hold a comma.
RECURSIVE altPartsFrom(_, _, _)
altPartsFrom(q, i, acc) ==
  IF i > Len(q) THEN acc
  ELSE altPartsFrom(q, i + 1,
                    acc \o (IF i < Len(q) /\ q[i] # <<>>
                            THEN SubSeq(q[i], 1, Len(q[i]) - 1) ELSE q[i]))

parsedAs(postalCode, targetCity, targetState) ==
  [postalCode |-> postalCode, targetCity |-> targetCity, targetState |-> targetState]

\* parseSearchString(q, mode)
parseSearchString(q, mode) ==
  LET part(i) == IF i <= Len(q) THEN q[i] ELSE <<>>
      altParts == altPartsFrom(q, 1, <<>>)
      alt(i) == <<altParts[i]>>
      asSplit == parsedAs(<<>>, part(1), part(2))
      mixed == IF Len(altParts) <= 1 THEN asSplit
               ELSE IF usZip(alt(1)) THEN parsedAs(zipOf(alt(1)), <<>>, alt(2))
               ELSE IF usZip(alt(2)) THEN parsedAs(zipOf(alt(2)), alt(1), <<>>)
               ELSE IF otherPostal(alt(1)) THEN parsedAs(upperCase(alt(1)), <<>>, alt(2))
               ELSE IF otherPostal(alt(2)) THEN parsedAs(upperCase(alt(2)), alt(1), <<>>)
               ELSE asSplit
      city == mixed.targetCity
      state == mixed.targetState
      plain == IF mixed.postalCode # <<>> THEN mixed
               ELSE IF usZip(city) THEN parsedAs(zipOf(city), <<>>, state)
               ELSE IF otherPostal(city) THEN parsedAs(upperCase(city), <<>>, state)
               ELSE IF usZip(state) THEN parsedAs(zipOf(state), city, <<>>)
               ELSE IF otherPostal(state) THEN parsedAs(upperCase(state), city, <<>>)
               ELSE parsedAs(<<>>, upperCase(city), state)
      targetCountry == upperCase(part(3))
      withCountry == IF targetCountry # <<>> THEN targetCountry
                     ELSE upperCase(plain.targetState)
      trailing == /\ mode = "loose"
                  /\ withCountry = <<>>
                  /\ Len(plain.targetCity) >= 2
                  /\ isStateOrCountry(plain.targetCity[Len(plain.targetCity)])
      targetCity == IF trailing
                    THEN SubSeq(plain.targetCity, 1, Len(plain.targetCity) - 1)
                    ELSE plain.targetCity
      targetState == IF trailing THEN <<plain.targetCity[Len(plain.targetCity)]>>
                     ELSE withCountry
      postalCode == plain.postalCode
      leading == IF postalCode # <<>> THEN postalCode ELSE targetCity
  IN [postalCode |-> postalCode, targetCity |-> targetCity, targetState |-> targetState,
      normalizedSearch |-> IF targetState # <<>> THEN <<leading, targetState>>
                           ELSE IF postalCode # <<>> /\ targetCity # <<>>
                           THEN <<targetCity, postalCode>>
                           ELSE <<leading>>]

\* A request's q and the mode its version selects.
InitParse ==
  /\ \E n \in 0..MaxWords : \E ws \in [1..n -> Words] : \E commas \in SUBSET (1..n) :
       query = split(ws, commas)
  /\ parseMode \in {"strict", "loose"}
  /\ parsedOnce = None
  /\ parsedAgain = None
  /\ HandlerIdle
  /\ DedupIdle
  /\ LogIdle
  /\ RaceIdle
  /\ LimiterIdle
  /\ StartupIdle
  /\ WriteBackIdle
  /\ LogRaceIdle
  /\ SearchIdle
  /\ RefreshIdle
  /\ ReloadIdle
  /\ PagingIdle
  /\ RetrievalIdle
  /\ SharingIdle

\* const parsed = parseSearchString(q, version < 3 ? 'loose' : 'strict')
ParseQuery ==
  /\ parsedOnce = None
  /\ parsedOnce' = Some(parseSearchString(query, parseMode))
  /\ UNCHANGED <<query, parseMode, parsedAgain>>
  /\ UNCHANGED <<handlerVars, dedupVars, logVars, raceVars, limiterVars, startupVars, writeBackVars, logRaceVars, searchVars, refreshVars, reloadVars, pagingVars, retrievalVars, sharingVars>>

\* The normalized search is parsed in strict mode.
ParseNormalized ==
  /\ parsedOnce # None
  /\ parsedAgain = None
  /\ parsedAgain' = Some(parseSearchString(parsedOnce[1].normalizedSearch, "strict"))
  /\ UNCHANGED <<query, parseMode, parsedOnce>>
  /\ UNCHANGED <<handlerVars, dedupVars, logVars, raceVars, limiterVars, startupVars, writeBackVars, logRaceVars, searchVars, refreshVars, reloadVars, pagingVars, retrievalVars, sharingVars>>

NextParse == ParseQuery \/ ParseNormalized

SpecParse == InitParse /\ [][NextParse]_vars

(* ---------------------------------------------------------------------- *)
(* atlas_database.ts: updateAtlasDB on its own                             *)
(* ---------------------------------------------------------------------- *)

\* The largest number of rows of atlas2.
MaxRows == 3

\* Rows of one place name, in the USA with a state or in France without
\* one, with or without a county; several of them may hold the same
\* geonames_id.
StoredRows(item_no) ==
  {[AtlasRow(item_no, 1, 1, admin2, IF country = "USA" THEN 21 ELSE 0, 0, "", 1, 1, 1,
             geonames_id) EXCEPT !.country = country] :
     admin2 \in {0, 31, 32}, country \in {"USA", "FRA"}, geonames_id \in {7, 8}}

\* Matches of that name as the dedup leaves them: local or from GeoNames,
\* marked as an update or not.
WriteBackMatches ==
  {[NewLocation(1, 31, 21, country, 0, Undefined, "EST", "03060", 2, "P.PPL", source, 7)
      EXCEPT !.useAsUpdate = asUpdate] :
     country \in {"USA", "FRA"}, source \in {1, SOURCE_GEONAMES_GENERAL_UPDATE},
     asUpdate \in BOOLEAN}

InitWriteBack ==
  /\ \E n \in 1..MaxRows :
       /\ atlasBefore \in [1..n -> UNION {StoredRows(k) : k \in 1..n}]
       /\ \A k \in 1..n : atlasBefore[k].item_no = k
  /\ \E location \in WriteBackMatches : writeList = <<location>>
  /\ writeAllowed \in BOOLEAN
  /\ atlasAfter = None
  /\ HandlerIdle
  /\ DedupIdle
  /\ LogIdle
  /\ RaceIdle
  /\ LimiterIdle
  /\ StartupIdle
  /\ ParseIdle
  /\ LogRaceIdle
  /\ SearchIdle
  /\ RefreshIdle
  /\ ReloadIdle
  /\ PagingIdle
  /\ RetrievalIdle
  /\ SharingIdle

\* await updateAtlasDB(connection, uniqueMatches, dbUpdate)
WriteBack ==
  /\ atlasAfter = None
  /\ atlasAfter' = Some(updateAtlasDB(atlasBefore, writeList, writeAllowed))
  /\ UNCHANGED <<atlasBefore, writeList, writeAllowed>>
  /\ UNCHANGED <<handlerVars, dedupVars, logVars, raceVars, limiterVars, startupVars, parseVars, logRaceVars, searchVars, refreshVars, reloadVars, pagingVars, retrievalVars, sharingVars>>

NextWriteBack == WriteBack

SpecWriteBack == InitWriteBack /\ [][NextWriteBack]_vars

(* ---------------------------------------------------------------------- *)
(* The service handling one request                                        *)
(* ---------------------------------------------------------------------- *)

Init ==
  /\ request \in Requests
  /\ searchLog \in SearchRows
  /\ HandlerStart("connect")
  /\ DedupIdle
  /\ LogIdle
  /\ RaceIdle
  /\ LimiterIdle
  /\ StartupIdle
  /\ ParseIdle
  /\ WriteBackIdle
  /\ LogRaceIdle
  /\ SearchIdle
  /\ RefreshIdle
  /\ ReloadIdle
  /\ PagingIdle
  /\ RetrievalIdle
  /\ SharingIdle

Next ==
  \/ (GetConnection /\ UNCHANGED <<dedupVars, logVars, raceVars, limiterVars, startupVars, parseVars, writeBackVars, logRaceVars, searchVars, refreshVars, reloadVars, pagingVars, retrievalVars, sharingVars>>)
  \/ (CheckRecency /\ UNCHANGED <<dedupVars, logVars, raceVars, limiterVars, startupVars, parseVars, writeBackVars, logRaceVars, searchVars, refreshVars, reloadVars, pagingVars, retrievalVars, sharingVars>>)
  \/ (LocalSearch /\ UNCHANGED <<dedupVars, logVars, raceVars, limiterVars, startupVars, parseVars, writeBackVars, logRaceVars, searchVars, refreshVars, reloadVars, pagingVars, retrievalVars, sharingVars>>)
  \/ (GeoNamesSettles /\ UNCHANGED <<dedupVars, logVars, raceVars, limiterVars, startupVars, parseVars, writeBackVars, logRaceVars, searchVars, refreshVars, reloadVars, pagingVars, retrievalVars, sharingVars>>)
  \/ (GeoNamesTimesOut /\ UNCHANGED <<dedupVars, logVars, raceVars, limiterVars, startupVars, parseVars, writeBackVars, logRaceVars, searchVars, refreshVars, reloadVars, pagingVars, retrievalVars, sharingVars>>)
  \/ (GettySettles /\ UNCHANGED <<dedupVars, logVars, raceVars, limiterVars, startupVars, parseVars, writeBackVars, logRaceVars, searchVars, refreshVars, reloadVars, pagingVars, retrievalVars, sharingVars>>)
  \/ (GettyTimesOut /\ UNCHANGED <<dedupVars, logVars, raceVars, limiterVars, startupVars, parseVars, writeBackVars, logRaceVars, searchVars, refreshVars, reloadVars, pagingVars, retrievalVars, sharingVars>>)
  \/ (RemoteJoin /\ UNCHANGED <<dedupVars, logVars, raceVars, limiterVars, startupVars, parseVars, writeBackVars, logRaceVars, searchVars, refreshVars, reloadVars, pagingVars, retrievalVars, sharingVars>>)
  \/ (Merge /\ UNCHANGED <<dedupVars, logVars, raceVars, limiterVars, startupVars, parseVars, writeBackVars, logRaceVars, searchVars, refreshVars, reloadVars, pagingVars, retrievalVars, sharingVars>>)
  \/ (UpdateDbIfRequired /\ UNCHANGED <<dedupVars, logVars, raceVars, limiterVars, startupVars, parseVars, writeBackVars, logRaceVars, searchVars, refreshVars, reloadVars, pagingVars, retrievalVars, sharingVars>>)
  \/ (Respond /\ UNCHANGED <<dedupVars, logVars, raceVars, limiterVars, startupVars, parseVars, writeBackVars, logRaceVars, searchVars, refreshVars, reloadVars, pagingVars, retrievalVars, sharingVars>>)

Spec == Init /\ [][Next]_vars

(* ---------------------------------------------------------------------- *)
(* Properties of merge-and-dedup                                           *)
(* ---------------------------------------------------------------------- *)

\* The bucket of a location: its key without the "(n)" suffix.
bucketOf(l) == <<simplify(l.city), keyRegion(l.state, l.country)>>

\* Two place types that the place-type rules of the dedup do not make equal.
nonCollapsible(t1, t2) ==
  LET p1a == IF MATCH_ADM(t1) /\ MATCH_PPL(t2) THEN t2 ELSE t1
      p2a == IF MATCH_ADM(t2) /\ MATCH_PPL(p1a) THEN p1a ELSE t2
      p1 == IF MATCH_PPL(p1a) /\ MATCH_PPLX(p2a) THEN p2a ELSE p1a
      p2 == IF MATCH_PPL(p2a) /\ MATCH_PPLX(p1) THEN p1 ELSE p2a
  IN p1 # p2

farApart(a, b) == roughDistanceBetweenLocations(a.latitude, b.latitude) >= CloseMetres

\* C9: after eliminateDuplicatesAndSort any two survivors of one bucket are
\* at least 10 km apart, or of differing non-collapsible place types, or of
\* differing populated states with equal final rank, or of differing
\* populated counties with equal final rank.
C9_SurvivorsDistinct ==
  Len(passes) >= 1 =>
    \A m, n \in 1..Len(passes[1]) :
      (m < n /\ bucketOf(passes[1][m]) = bucketOf(passes[1][n])) =>
        LET a == passes[1][m]
            b == passes[1][n]
        IN \/ farApart(a, b)
           \/ nonCollapsible(a.placeType, b.placeType)
           \/ (a.state # b.state /\ a.state # 0 /\ b.state # 0 /\ a.rank = b.rank)
           \/ (a.county # b.county /\ a.county # 0 /\ b.county # 0 /\ a.rank = b.rank)

\* C10: merge-and-dedup of the list that merge-and-dedup returned yields the
\* same list.
C10_DedupIdempotent == Len(passes) = 2 => passes[2] = passes[1]

(* ---------------------------------------------------------------------- *)
(* Properties of the request handler                                       *)
(* ---------------------------------------------------------------------- *)

\* The handler has passed the merge step (the three copyAndMergeLocations
\* calls have run).
Merged ==
  \/ pc \in {"update", "respond"}
  \/ (pc = "done" /\ response.thrown \in {"", "RangeError", "TypeError"})

inMerged(location) ==
  \E b \in 1..Len(mergedMatches) :
    \E k \in 1..Len(mergedMatches[b].locations) : mergedMatches[b].locations[k] = location

\* What remoteSourcesSearch must report of one adapter: its map and no
\* error when it fulfilled, its error and no map when it rejected or timed
\* out; and the places of a fulfilled adapter are in the merged matches.
reportedFaithfully(promise, matches, error) ==
  /\ promise.state = "fulfilled" =>
       /\ matches = Some(promise.map)
       /\ error = ""
       /\ Merged => \A k \in 1..Len(promise.map) : inMerged(promise.map[k].loc)
  /\ promise.state = "rejected" =>
       /\ matches = None
       /\ error = promise.error

\* C1: when both adapters were launched and have settled, the handler goes
\* on with a remoteResults record in which each adapter's failure is in that
\* adapter's error field only and the other adapter's map is kept, and the
\* places of that map are merged.
C1_AdapterIsolation ==
  (/\ geoNamesPromise.state \in {"fulfilled", "rejected"}
   /\ gettyPromise.state \in {"fulfilled", "rejected"}
   /\ pc # "remote") =>
     /\ IsSome(remoteResults)
     /\ reportedFaithfully(geoNamesPromise, remoteResults[1].geoNamesMatches,
                           remoteResults[1].geoNamesError)
     /\ reportedFaithfully(gettyPromise, remoteResults[1].gettyMatches,
                           remoteResults[1].gettyError)

\* GeoNames timed out, Getty's places are in the response.
C1_Witness ==
  /\ pc = "done"
  /\ response.status = 200
  /\ geoNamesPromise = Rejected("GeoNames search timed out")
  /\ gettyPromise.state = "fulfilled"
  /\ response.error = "GeoNames search timed out"
  /\ \E k \in 1..Len(response.matches) : response.matches[k].source = SOURCE_GETTY_UPDATE

\* The matches a response carries when the local search contributed
\* nothing: the remote maps merged, deduplicated, sorted and cut to limit.
remoteOnlyMatches ==
  LET unique == eliminateDuplicatesAndSort(mergeMatches(None, remoteResults),
                                           limitOf(request) + 1)
      cut == IF Len(unique) > limitOf(request) /\ limitOf(request) >= 0
             THEN SubSeq(unique, 1, limitOf(request)) ELSE unique
  IN IF request.pt THEN sortForPlainText(cut) ELSE cut

\* C2: a request whose local search failed on the first attempt and whose
\* second attempt failed as well ends with a SearchResult whose error is
\* the DB error and whose matches are the merged remote matches.
C2_RetryOnceThenReport ==
  (pc = "done" /\ attempt = 1 /\ dbError # "") =>
     /\ response.status = 200
     /\ response.error = dbError
     /\ response.matches = remoteOnlyMatches

\* C3: every request ends with a SearchResult response of status 200.
C3_AlwaysSearchResult == pc = "done" => response.status = 200

\* The search was done recently, as the row of the search log tells it.
recentlyDone ==
  /\ searchLog.exists
  /\ searchLog.months < MAX_MONTHS_BEFORE_REDOING_EXTENDED_SEARCH
  /\ (searchLog.extended \/ request.remote \notin {"extend", "only", "forced"})

\* The decision on remote data and what follows of it: remote data is
\* consulted iff the mode forces it or the mode is not skip and the search
\* was not done recently; remoteSourcesSearch runs iff it is consulted; with
\* skip nothing is launched and hasSearchBeenDoneRecently is not called.
consultDecision ==
  /\ pc \in {"search", "remote", "merge", "update"} =>
       (consultRemoteData <=>
          \/ request.remote \in {"forced", "only", "geonames", "getty"}
          \/ (request.remote # "skip" /\ ~recentlyDone))
  /\ pc \in {"remote", "merge", "update", "respond"} =>
       (consultRemoteData <=> (pc = "remote" \/ IsSome(remoteResults)))
  /\ ~consultRemoteData => (geoNamesPromise = NotLaunched /\ gettyPromise = NotLaunched)
  /\ request.remote = "skip" =>
       /\ ~consultRemoteData
       /\ remoteResults = None
       /\ recencyLookups = 0

\* C4: remote adapters are consulted iff remote is one of
\* forced, only, geonames, getty, or remote is not skip and
\* hasSearchBeenDoneRecently returned false; with remote=skip no adapter is
\* launched and hasSearchBeenDoneRecently is never called (the log is still
\* read when the search is logged after the response is built).
C4_ConsultDecision == consultDecision

\* A normal-mode request whose search was done recently consulted nothing,
\* and one whose search was not has consulted the adapters.
C4_Witness ==
  /\ pc = "done"
  /\ response.status = 200
  /\ request.remote = "normal"
  /\ recencyLookups = 1
  /\ IsSome(remoteResults)
  /\ geoNamesPromise.state = "fulfilled"

\* C4 with the stronger last clause: the same, and with remote=skip the
\* search log is never read during the request.
C4_LogNeverReadOnSkip ==
  /\ consultDecision
  /\ request.remote = "skip" => logReads = 0

\* C5: no value of the limit parameter makes the truncation fail, and a
\* response has at most limit matches, limitReached only with exactly limit.
C5_LimitRespected ==
  /\ response.thrown # "RangeError"
  /\ response.status = 200 =>
       /\ Len(response.matches) <= limitOf(request)
       /\ response.limitReached => Len(response.matches) = limitOf(request)

\* The location came out of the local postal-code search.
localPostal(location) ==
  /\ ~Falsy(request.parsed.postalCode)
  /\ location.source < MIN_EXTERNAL_SOURCE

\* C6: every location of a response has a rank in 0..9, a local postal-code
\* match exactly 9, a local match of a search by name at most 8.
C6_RankRange ==
  response.status = 200 =>
    \A k \in 1..Len(response.matches) :
      LET location == response.matches[k]
      IN /\ location.rank \in 0..ZIP_RANK
         /\ localPostal(location) => location.rank = ZIP_RANK
         /\ (location.source < MIN_EXTERNAL_SOURCE /\ Falsy(request.parsed.postalCode)
             /\ ~IsSome(remoteResults)) => location.rank < ZIP_RANK

\* C7: a location of a response with a zip has rank 9 or a local source.
C7_ZipImpliesRankOrLocal ==
  response.status = 200 =>
    \A k \in 1..Len(response.matches) :
      ~Falsy(response.matches[k].zip) =>
        \/ response.matches[k].rank = ZIP_RANK
        \/ response.matches[k].source < MIN_EXTERNAL_SOURCE

\* C8: the matches of a response are in non-increasing order of rank, and
\* matches of equal rank in ascending order of display name.
C8_Ordered ==
  response.status = 200 =>
    \A m, n \in 1..Len(response.matches) :
      m < n =>
        /\ ~JsLt(response.matches[m].rank, response.matches[n].rank)
        /\ response.matches[m].rank = response.matches[n].rank =>
             ~NameLess(response.matches[n], response.matches[m])

(* ---------------------------------------------------------------------- *)
(* Properties of the search log                                            *)
(* ---------------------------------------------------------------------- *)

\* The age below which a logged search counts as recent.
fresh(row) == row.months < 12

\* C11: hasSearchBeenDoneRecently(s, extended) returns true iff a row for s
\* exists, is less than 12 months old, and the stored row is extended or
\* the request is not; the lookup leaves the row as it was.
C11_RecentIffLoggedFreshAndCovering ==
  IsSome(lookup) =>
    LET call == lookup[1]
    IN /\ call.found <=> /\ call.row.exists
                          /\ fresh(call.row)
                          /\ (call.row.extended \/ ~call.extended)
       /\ logRow = call.row

\* A lookup of a row that has been hit more than once, answered true.
C11_Witness ==
  /\ IsSome(lookup)
  /\ lookup[1].row.exists
  /\ lookup[1].row.hits > 1
  /\ lookup[1].found

\* What the last logSearchResults call asked for, and what the row said
\* before it.
loggedExtended == logged[1].extended
priorExtended == logged[1].prior.exists /\ logged[1].prior.extended

\* C12: after logSearchResults(s, ext, n), whatever the log held before, a
\* following hasSearchBeenDoneRecently(s, ext') returns true iff the row is
\* less than 12 months old and ext' <= ext or the row was already extended
\* (the extended flag is sticky).
C12_LookupAfterLogSticky ==
  (IsSome(logged) /\ IsSome(lookup)) =>
    (lookup[1].found <=>
       /\ fresh(logRow)
       /\ (~lookup[1].extended \/ loggedExtended \/ priorExtended))

\* A plain search logged over an extended row, then an extended lookup that
\* is answered true.
C12_Witness ==
  /\ IsSome(logged)
  /\ IsSome(lookup)
  /\ priorExtended
  /\ ~loggedExtended
  /\ lookup[1].extended
  /\ lookup[1].found

\* C12 without the sticky flag: the lookup returns true iff ext' <= ext and
\* the row is less than 12 months old.
C12_LookupAfterLog ==
  (IsSome(logged) /\ IsSome(lookup)) =>
    (lookup[1].found <=>
       /\ fresh(logRow)
       /\ (~lookup[1].extended \/ loggedExtended))

(* ---------------------------------------------------------------------- *)
(* Properties of timedPromise                                              *)
(* ---------------------------------------------------------------------- *)

\* The promise returned for adapter a is settled by whichever of the adapter
\* and the timer came first, and the timer comes at its deadline.
settledByFirst(a) ==
  /\ first[a] = "none" => timedPromise[a].state \in {"none", "pending"}
  /\ first[a] = "adapter" => timedPromise[a] = adapterPromise[a]
  /\ first[a] = "timer" => timedPromise[a] = Rejected(errorResponse(a))
  /\ timer[a] = "fired" => clock >= (IF a = "GeoNames" THEN 20 ELSE 110)
  /\ timedPromise[a].state = "pending" => clock <= (IF a = "GeoNames" THEN 20 ELSE 110)

\* C13: each adapter call is a race against its hard deadline (GeoNames
\* 20 s, Getty 110 s): the promise rejects with the timeout error if the
\* adapter has not settled when the timer fires and otherwise takes the
\* adapter's outcome; the later of the two changes nothing; and the await
\* of the remote phase always returns, whether or not an adapter responds.
C13_RaceAgainstDeadline ==
  /\ [](\A a \in Adapters : settledByFirst(a))
  /\ [][\A a \in Adapters :
          timedPromise[a].state \in {"fulfilled", "rejected"} => timedPromise'[a] = timedPromise[a]]_vars
  /\ [][joined # None => joined' = joined]_vars
  /\ <>(joined # None)

\* GeoNames answered after its timer had fired, Getty never answered, and
\* the remote phase returned with both timeout errors.
C13_Witness ==
  /\ joined # None
  /\ first["GeoNames"] = "timer"
  /\ adapterPromise["GeoNames"].state = "fulfilled"
  /\ adapterPromise["Getty"].state = "pending"
  /\ joined[1].results.geoNamesError = "GeoNames search timed out"
  /\ joined[1].results.gettyError = "Getty search timed out"

(* ---------------------------------------------------------------------- *)
(* Properties of the write-back                                            *)
(* ---------------------------------------------------------------------- *)

\* The request handler is past updateDbIfRequired and has not thrown.
pastUpdate == pc \in {"respond", "done"} /\ response.status # 500

logWritten == searchLog \notin SearchRows
writtenBack == logWritten \/ atlas2 # Atlas2

noAdapterError == remoteResults = None \/ remoteResults[1].noErrors
traced == ~request.notrace /\ request.remote # "only"

\* C14: the search log and atlas2 are written only if the local search
\* ended without a DB error, the request is not noTrace and no consulted
\* adapter reported an error; when these hold and no query of the
\* write-back fails, the search log is updated.
C14_WriteBackOnlyWhenClean ==
  /\ [][(searchLog' # searchLog \/ atlas2' # atlas2) =>
          (dbError = "" /\ traced /\ noAdapterError)]_vars
  /\ []((pastUpdate /\ dbError = "" /\ traced /\ noAdapterError /\ ~updateError)
          => logWritten)

\* A request that consulted GeoNames has logged the search and added a
\* row to atlas2.
C14_Witness ==
  /\ pc = "done"
  /\ response.status = 200
  /\ logWritten
  /\ Len(atlas2) > Len(Atlas2)
  /\ ~updateError

\* C14 without the adapter condition: write-back is performed iff the
\* local search ended without a DB error and the request is not noTrace.
C14_WriteBackIff ==
  (pastUpdate /\ ~updateError) => (writtenBack <=> (dbError = "" /\ traced))

(* ---------------------------------------------------------------------- *)
(* Properties of the IP-lookup service                                     *)
(* ---------------------------------------------------------------------- *)

\* The requests forwarded in the 60 seconds that end at instant t.
forwardedInWindow(t) ==
  {i \in 1..Len(forwarded) : forwarded[i] > t - 60000 /\ forwarded[i] <= t}

\* The 140 requests forwarded last before a request are all less than 60
\* seconds old when it arrives.
lastForwardedAllRecent(r) ==
  /\ Len(r.forwarded) >= 140
  /\ \A i \in (Len(r.forwarded) - 139)..Len(r.forwarded) : r.forwarded[i] > r.now - 60000

\* C15: at most 140 requests are forwarded in any 60-second window; a
\* request is refused iff the 140 requests forwarded last all lie within
\* the last 60 seconds; a refused request is not recorded; the list of time
\* stamps never holds more than 140 entries.
C15_SlidingWindowLimit ==
  /\ \A i \in 1..Len(forwarded) : Cardinality(forwardedInWindow(forwarded[i])) <= 140
  /\ Len(times) <= 140
  /\ IsSome(lastRequest) =>
       LET r == lastRequest[1]
       IN /\ r.busy <=> lastForwardedAllRecent(r)
          /\ r.busy => (times = r.times /\ forwarded = r.forwarded)
          /\ ~r.busy => forwarded = Append(r.forwarded, r.now)

\* With 140 time stamps held, the oldest of them 60 s old, a request was
\* forwarded and pushed the oldest time stamp out.
C15_Witness ==
  /\ IsSome(lastRequest)
  /\ ~lastRequest[1].busy
  /\ lastRequest[1].now = 60000
  /\ Len(lastRequest[1].times) = 140
  /\ Len(forwarded) = 141
  /\ answered >= 2

(* ---------------------------------------------------------------------- *)
(* Properties of start-up and re-initialization                            *)
(* ---------------------------------------------------------------------- *)

\* C16: a failure of any initialization step (timezones, flag codes,
\* gazetteer files) in the first run keeps the server from listening, and a
\* failure during a re-init lets the request continue with the dictionaries
\* it had before.
C16_InitFailureFatalOnlyAtStartup ==
  /\ startupFailure # 0 => server # "listening"
  /\ (IsSome(reInit) /\ reInit[1].failure # 0) =>
       (reInit[1].continued /\ dictionaries = reInit[1].before)

(* ---------------------------------------------------------------------- *)
(* Properties of parseSearchString                                         *)
(* ---------------------------------------------------------------------- *)

\* C17: parsing the normalized search of any query in strict mode yields
\* the same normalized search, also when a postal code is combined with a
\* city or a state.
C17_NormalizedIsFixpoint ==
  parsedAgain # None => parsedAgain[1].normalizedSearch = parsedOnce[1].normalizedSearch

(* ---------------------------------------------------------------------- *)
(* Properties of the pooled connections                                    *)
(* ---------------------------------------------------------------------- *)

\* C18: once the retry loop is left, for the remote adapters or for the
\* merge, every connection the handler acquired has been released, also
\* when the first local search failed and a second connection was acquired.
C18_ConnectionsReleasedBeforeRemote ==
  pc \in {"remote", "merge"} => pool.released = pool.acquired

(* ---------------------------------------------------------------------- *)
(* Properties of the reconciliation of one GeoNames id                     *)
(* ---------------------------------------------------------------------- *)

\* Two candidates with the same nonzero GeoNames id and different sources.
sameIdPair ==
  /\ Len(candidates) = 2
  /\ candidates[1].geonameID # 0
  /\ candidates[1].geonameID = candidates[2].geonameID
  /\ candidates[1].source # candidates[2].source

newer == IF candidates[1].source > candidates[2].source THEN 1 ELSE 2
older == 3 - newer

reconciled == reconcilePair(candidates, 1, 2, candidates[1], candidates[1].placeType).locations

\* C20, as the code has it: when dedup reconciles two locations with equal
\* nonzero geonameID and different sources, the location that stays is the
\* one whose source was higher (the newer data), the other becomes
\* undefined, and the one that stays ends up with the other, lower source
\* value; it is the only location of the result.
C20_NewerStaysWithOlderSource ==
  (passes # <<>> /\ sameIdPair) =>
     /\ reconciled[older] = NoLocation
     /\ reconciled[newer] # NoLocation
     /\ reconciled[newer].source = candidates[older].source
     /\ passes[1] = <<reconciled[newer]>>

\* A general update from GeoNames has been reconciled with the local row of
\* the same id that came first and holds the ZIP code.
C20_Witness ==
  /\ passes # <<>>
  /\ sameIdPair
  /\ candidates[1].source = 1
  /\ candidates[1].zip = "03060"
  /\ candidates[2].zip = ""
  /\ Len(passes[1]) = 1
  /\ passes[1][1].source = 1

\* C20 as stated: the location that stays is the one whose source was
\* lower, and it ends up with the other, newer source value.
C20_OlderStaysWithNewerSource ==
  (passes # <<>> /\ sameIdPair) =>
     /\ reconciled[newer] = NoLocation
     /\ reconciled[older] # NoLocation
     /\ reconciled[older].source = candidates[newer].source

(* ---------------------------------------------------------------------- *)
(* Properties of the write-back of an update                               *)
(* ---------------------------------------------------------------------- *)

\* The rows of a table that hold a GeoNames id.
rowsOfId(table, id) == {k \in 1..Len(table) : table[k].geonames_id = id}

\* C19: when a useAsUpdate location's geonames_id matches several atlas2
\* rows, after the write-back exactly one row with that geonames_id
\* remains, it is the first of the rows matched, and it holds the updated
\* values.
C19_UpdateFirstDeleteRest ==
  (/\ atlasAfter # None
   /\ writeAllowed
   /\ writeList[1].useAsUpdate
   /\ Cardinality(rowsOfId(atlasBefore, writeList[1].geonameID)) >= 2) =>
     LET id == writeList[1].geonameID
         firstRow == atlasBefore[MinOf(rowsOfId(atlasBefore, id))]
         remaining == rowsOfId(atlasAfter[1], id)
     IN /\ Cardinality(remaining) = 1
        /\ \A k \in remaining :
             atlasAfter[1][k] = rowValues(writeList[1], firstRow.item_no, id)

\* Two candidates with the same nonzero GeoNames id, of any sources.
sameIdCandidates ==
  /\ Len(candidates) = 2
  /\ candidates[1].geonameID # 0
  /\ candidates[1].geonameID = candidates[2].geonameID

\* The index that reconcilePair leaves defined.
staying == CHOOSE k \in 1..2 : reconciled[k] # NoLocation

\* C21: when dedup reconciles two locations with equal nonzero geonameID,
\* the one that stays carries a non-empty zip whenever either of the two had
\* one, be it the one at index i or the one at index j.
C21_SurvivorCarriesZip ==
  (passes # <<>> /\ sameIdCandidates
     /\ (~Falsy(candidates[1].zip) \/ ~Falsy(candidates[2].zip))) =>
     /\ ~Falsy(reconciled[staying].zip)
     /\ \A k \in 1..Len(passes[1]) : ~Falsy(passes[1][k].zip)

\* The location set to undefined as isCloseMatch sees it: when the second
\* location stays, the first has been given zip2 || zip1 before.
eliminated ==
  IF staying = 2
  THEN [candidates[1] EXCEPT !.zip = JsOr(candidates[2].zip, candidates[1].zip)]
  ELSE candidates[2]

firstAbsorbsAll ==
  /\ Len(candidates) >= 2
  /\ candidates[1].geonameID # 0
  /\ \A k \in 2..Len(candidates) :
       /\ candidates[k].geonameID = candidates[1].geonameID
       /\ candidates[k].source < candidates[1].source

\* C23: during dedup of a bucket of any size the rank of a location that
\* stays never decreases: after it has absorbed duplicates through the
\* same-geonameID rule its rank is at least its initial rank and at least
\* the rank of every duplicate it absorbed.
C23_RankNeverDecreases ==
  (passes # <<>> /\ firstAbsorbsAll) =>
     /\ Len(passes[1]) = 1
     /\ \A k \in 1..Len(candidates) : passes[1][1].rank >= candidates[k].rank

\* The test of the row loop for a location that is not an update: same
\* key, same country, less than 10 km apart and, in the USA and Canada, the
\* same state.
matchesRow(location, row) ==
  /\ row.key_name = simplify(location.city)
  /\ location.country = row.country
  /\ roughDistanceBetweenLocations(location.latitude, row.latitude) < CloseMetres
  /\ (location.country \in {"USA", "CAN"} => location.state = row.admin1)

\* A remote location that is not an update has been written back over a
\* table that holds a row it matches.
remoteOverMatch ==
  /\ atlasAfter # None
  /\ writeAllowed
  /\ ~writeList[1].useAsUpdate
  /\ writeList[1].source >= MIN_EXTERNAL_SOURCE
  /\ \E k \in 1..Len(atlasBefore) : matchesRow(writeList[1], atlasBefore[k])

\* C24: for a remote location that matches an atlas2 row and is not an
\* update, write-back keeps the rows and changes only their admin2 and
\* admin1 columns, and only where the stored value is missing: a stored
\* admin2 or admin1 that is not empty stays as it is.
C24_OnlyMissingAdminFilled ==
  remoteOverMatch =>
     /\ Len(atlasAfter[1]) = Len(atlasBefore)
     /\ \A k \in 1..Len(atlasBefore) :
          /\ [atlasAfter[1][k] EXCEPT !.admin2 = 0, !.admin1 = 0]
               = [atlasBefore[k] EXCEPT !.admin2 = 0, !.admin1 = 0]
          /\ (atlasBefore[k].admin2 # 0 => atlasAfter[1][k].admin2 = atlasBefore[k].admin2)
          /\ (atlasBefore[k].admin1 # 0 => atlasAfter[1][k].admin1 = atlasBefore[k].admin1)

(* ---------------------------------------------------------------------- *)
(* Properties of concurrent log calls                                      *)
(* ---------------------------------------------------------------------- *)

\* The log calls that have sent their INSERT or UPDATE.
completedLogCalls == Cardinality({p \in DOMAIN loggers : loggers[p].pc = "done"})

\* C25: for any interleaving of the requests that log one search no update
\* is lost: once all calls are completed hits has grown by the number of
\* calls, and no INSERT was sent for a search that already had a row.
C25_NoLostLogUpdate ==
  (loggers # <<>> /\ completedLogCalls = Len(loggers)) =>
     /\ sharedRow.hits = rowAtStart.hits + completedLogCalls
     /\ duplicateInserts = 0

(* ---------------------------------------------------------------------- *)
(* Properties of the order of the writes of one request                    *)
(* ---------------------------------------------------------------------- *)

\* The matches of the response as merge, dedup and truncation leave them.
finalMatches ==
  truncate(eliminateDuplicatesAndSort(mergeMatches(dbMatches, remoteResults),
                                      limitOf(request) + 1),
           limitOf(request)).matches

\* C26: within one request the search log is written only in
\* updateDbIfRequired, when merge, dedup and truncation have fixed the
\* matches of the result, and with that number of matches; atlas2 is
\* written only in a step in which the search log has been written.
C26_WritesAfterMergeAndDedup ==
  [][(searchLog' # searchLog \/ atlas2' # atlas2) =>
       /\ pc = "update"
       /\ result.matches = finalMatches
       /\ searchLog' = logSearchResults(searchLog, extend(request.remote),
                                        Len(finalMatches), TRUE).row
       /\ searchLog' # searchLog]_vars

\* A request has been answered after its search was logged for the first
\* time and its remote matches were written to atlas2.
C26_Witness ==
  /\ pc = "done"
  /\ response.status = 200
  /\ searchLog.exists
  /\ searchLog.hits = 1
  /\ searchLog.matches = Len(result.matches)
  /\ Len(result.matches) > 0
  /\ atlas2 # Atlas2

(* ---------------------------------------------------------------------- *)
(* Properties of the local search                                          *)
(* ---------------------------------------------------------------------- *)

\* The stages of a pass that are not left out by their own `continue`.
stagesOf(pass) ==
  {matchType \in EXACT_MATCH..SOUNDS_LIKE :
     ~stageQuery(searchRows, AtlasAltNames, searchFor, pass, matchType).skip}

queriedStages == searched[1].queried

\* C27, as the code has it: the stage ladder of a pass stops after a stage
\* iff the query is postal, or the stage is STARTS_WITH or later and the
\* pass is pass 0 or matches have been found; the stages after it are not
\* queried in that pass, and after any other stage the next stage of the
\* pass is queried.
C27_LadderStopsFromStartsWith ==
  searched # None =>
    \A k \in 1..Len(queriedStages) :
      LET at == queriedStages[k]
          stops == \/ ~Falsy(searchFor.postalCode)
                   \/ (at.matchType >= STARTS_WITH /\ (at.pass = 0 \/ at.size > 0))
          later == {m \in stagesOf(at.pass) : m > at.matchType}
      IN IF stops
         THEN \A n \in (k + 1)..Len(queriedStages) : queriedStages[n].pass # at.pass
         ELSE later # {} =>
                /\ k < Len(queriedStages)
                /\ queriedStages[k + 1].pass = at.pass
                /\ queriedStages[k + 1].matchType = MinOf(later)

\* A search by city has queried EXACT_MATCH and STARTS_WITH in pass 0 with
\* matches from the first on, and has not reached SOUNDS_LIKE in either
\* pass.
C27_Witness ==
  /\ searched # None
  /\ Falsy(searchFor.postalCode)
  /\ Len(queriedStages) = 4
  /\ queriedStages[1] = [pass |-> 0, matchType |-> EXACT_MATCH, size |-> 1]
  /\ queriedStages[2].matchType = STARTS_WITH
  /\ queriedStages[3].pass = 1
  /\ queriedStages[4].pass = 1
  /\ queriedStages[4].matchType = STARTS_WITH

\* C27 as stated: the ladder of a pass stops after the current stage
\* whenever pass 0 has produced matches, the query is postal, or the
\* STARTS_WITH stage has been reached with matches.
C27_LadderStopsOnFirstMatches ==
  searched # None =>
    \A k \in 1..Len(queriedStages) :
      LET at == queriedStages[k]
      IN ((at.pass = 0 /\ at.size > 0)
          \/ ~Falsy(searchFor.postalCode)
          \/ (at.matchType >= STARTS_WITH /\ at.size > 0))
         => \A n \in (k + 1)..Len(queriedStages) : queriedStages[n].pass # at.pass

\* C28: the map returned by doDataBaseSearch never holds more than
\* 4 x maxMatches locations.
C28_AtMostFourTimesMax ==
  searched # None => Len(searched[1].matches) <= 4 * searchMax

(* ---------------------------------------------------------------------- *)
(* Sound-only local results                                                *)
(* ---------------------------------------------------------------------- *)

localDiscarded == gotBetterMatchesFromRemoteData /\ dbMatches = None

\* C29: dbMatchedOnlyBySound is true only if the local search returned at
\* least one location and every returned location is matchedBySound; the
\* local results are discarded from the merge only when that flag is true
\* and the adapters returned at least one match.
C29_SoundOnlyNeedsLocalMatches ==
  /\ (dbMatchedOnlyBySound /\ ~localDiscarded) =>
       /\ IsSome(dbMatches)
       /\ Len(dbMatches[1]) >= 1
       /\ \A k \in 1..Len(dbMatches[1]) : dbMatches[1][k].loc.matchedBySound
  /\ localDiscarded =>
       /\ dbMatchedOnlyBySound
       /\ IsSome(remoteResults)
       /\ remoteResults[1].matches > 0

\* C29 with the empty result: dbMatchedOnlyBySound is true only if the local
\* search returned and every location it returned, if any, is
\* matchedBySound; the local results are missing from the merge of a search
\* that consulted the database without error only when they were discarded,
\* and they are discarded only when the flag is true and the adapters
\* returned at least one match.
C29_SoundOnlyMayBeEmpty ==
  /\ (dbMatchedOnlyBySound /\ ~localDiscarded) =>
       /\ IsSome(dbMatches)
       /\ \A k \in 1..Len(dbMatches[1]) : dbMatches[1][k].loc.matchedBySound
  /\ (pc \in {"merge", "update", "respond"} /\ dbMatches = None
        /\ ~withoutDB(request.remote) /\ dbError = "")
       => localDiscarded
  /\ localDiscarded =>
       /\ dbMatchedOnlyBySound
       /\ IsSome(remoteResults)
       /\ remoteResults[1].matches > 0

\* The local search for city 11 returned no location, the adapters returned
\* one, and the handler goes on to merge without the local results.
C29_Witness ==
  /\ pc = "merge"
  /\ localDiscarded
  /\ request.parsed.targetCity = 11
  /\ remoteResults[1].matches > 0

\* The local search for city 5 returned only locations matched by sound.
C29_SoundOnlyDiscarded ==
  /\ pc = "merge"
  /\ localDiscarded
  /\ request.parsed.targetCity = 5

(* ---------------------------------------------------------------------- *)
(* The adapters a mode launches                                            *)
(* ---------------------------------------------------------------------- *)

launched(promise) == promise.state # "none"

\* C30: when remote data is consulted, remote=geonames launches only the
\* GeoNames adapter, remote=getty only the Getty adapter, and only, normal,
\* extend and forced launch both; the Getty adapter is never launched for a
\* query that carries a postal code. No adapter is launched before the
\* handler consults remote data.
C30_AdaptersByMode ==
  LET postal == ~Falsy(request.parsed.postalCode)
  IN /\ launched(geoNamesPromise) => consultRemoteData /\ request.remote # "getty"
     /\ launched(gettyPromise) =>
          consultRemoteData /\ request.remote # "geonames" /\ ~postal
     /\ (consultRemoteData /\ pc \in {"remote", "merge", "update", "respond"}) =>
          /\ request.remote = "geonames" =>
               launched(geoNamesPromise) /\ ~launched(gettyPromise)
          /\ request.remote = "getty" =>
               ~launched(geoNamesPromise) /\ (launched(gettyPromise) <=> ~postal)
          /\ request.remote \in {"only", "normal", "extend", "forced"} =>
               launched(geoNamesPromise) /\ (launched(gettyPromise) <=> ~postal)

\* remote=forced with a postal code: GeoNames is being asked and Getty was
\* not launched.
C30_Witness ==
  /\ pc = "remote"
  /\ request.remote = "forced"
  /\ ~Falsy(request.parsed.postalCode)
  /\ geoNamesPromise.state = "pending"
  /\ gettyPromise = NotLaunched

\* remote=getty without a postal code: only the Getty adapter runs.
C30_GettyAlone ==
  /\ pc = "remote"
  /\ request.remote = "getty"
  /\ geoNamesPromise = NotLaunched
  /\ gettyPromise.state = "pending"

(* ---------------------------------------------------------------------- *)
(* What the local search returns                                           *)
(* ---------------------------------------------------------------------- *)

returned == searched[1].matches

\* C39: doDataBaseSearch never returns a mix of sound-matched and
\* otherwise-matched locations: the SOUNDS_LIKE stage is queried only in
\* pass 1 and only when no earlier stage of either pass has produced a
\* match, so if any returned location is matchedBySound all of them are.
C39_SoundMatchesNeverMixed ==
  searched # None =>
    /\ \A k \in 1..Len(queriedStages) :
         queriedStages[k].matchType = SOUNDS_LIKE =>
           /\ queriedStages[k].pass = 1
           /\ \A n \in 1..(k - 1) : queriedStages[n].size = 0
    /\ (\E k \in 1..Len(returned) : returned[k].loc.matchedBySound)
         => \A k \in 1..Len(returned) : returned[k].loc.matchedBySound

\* The search for city 5 went through every stage of both passes without a
\* match and returns rows that sound like it.
C39_Witness ==
  /\ searched # None
  /\ Len(returned) > 0
  /\ \A k \in 1..Len(returned) : returned[k].loc.matchedBySound
  /\ \E k \in 1..Len(queriedStages) :
        queriedStages[k] = [pass |-> 1, matchType |-> SOUNDS_LIKE, size |-> Len(returned)]

\* C40: each atlas2 row contributes at most one location to the map
\* returned by doDataBaseSearch, across all stages and both passes (the
\* rows of the search lie at distinct latitudes).
C40_OneLocationPerRow ==
  searched # None =>
    \A a, b \in 1..Len(returned) :
      returned[a].loc.latitude = returned[b].loc.latitude => a = b

(* ---------------------------------------------------------------------- *)
(* What dedup leaves of a bucket                                           *)
(* ---------------------------------------------------------------------- *)

mergedCandidates == copyAndMergeLocations(<<>>, keyedLocations(candidates))
reconciledBuckets == reconcileBuckets(mergedCandidates)
staysIn(bucket) == {n \in 1..Len(bucket.locations) : bucket.locations[n] # NoLocation}

\* C37: dedup never empties a bucket: of every bucket of the merged input
\* at least one location stays, so a non-empty merged input with a limit of
\* 1 or more yields a non-empty match list.
C37_BucketNeverEmptied ==
  /\ \A b \in 1..Len(reconciledBuckets) : staysIn(reconciledBuckets[b]) # {}
  /\ passes # <<>> => Len(passes[1]) >= 1

\* Dedup has run on a bucket of three candidates and left one of them.
C37_Witness ==
  /\ passes # <<>>
  /\ Len(mergedCandidates) = 1
  /\ Len(mergedCandidates[1].locations) = 3
  /\ Cardinality(staysIn(reconciledBuckets[1])) = 1
  /\ Len(passes[1]) = 1

\* Every location dedup leaves of the candidates, and the matches of the
\* response: the list of the first pass cut to the request's limit.
survivors ==
  UNION {{reconciledBuckets[b].locations[n] : n \in staysIn(reconciledBuckets[b])} :
           b \in 1..Len(reconciledBuckets)}
returnedMatches == truncate(passes[1], dedupLimit - 1).matches

\* C38: when more locations survive than the limit, the matches returned
\* are the highest-ranked ones: no survivor left out of the response has a
\* rank strictly higher than a returned match.
C38_HighestRankedReturned ==
  passes # <<>> =>
    \A left \in survivors :
      (\A k \in 1..Len(returnedMatches) : returnedMatches[k] # left) =>
        \A k \in 1..Len(returnedMatches) : ~JsGt(left.rank, returnedMatches[k].rank)

(* ---------------------------------------------------------------------- *)
(* Failed adapters and the write-back                                      *)
(* ---------------------------------------------------------------------- *)

adapterFailed == geoNamesPromise.state = "rejected" \/ gettyPromise.state = "rejected"

\* The decision of the handler on a request of the same mode that finds the
\* row of the search log as it is now.
consultsAgain ==
  \/ request.remote \in {"forced", "only", "geonames", "getty"}
  \/ (request.remote # "skip" /\ ~hasSearchBeenDoneRecently(searchLog, extend(request.remote)))

\* C36: if any launched adapter failed or timed out, the request writes
\* nothing to atlas_searches2 or atlas2, so the failed consultation is not
\* recorded as a search done and the next identical request consults the
\* remote sources again.
C36_NothingWrittenAfterAdapterFailure ==
  /\ [][adapterFailed => (searchLog' = searchLog /\ atlas2' = atlas2)]_vars
  /\ []((adapterFailed /\ pc \in {"respond", "done"}) => consultsAgain)

\* One adapter failed, the other returned places, and the handler is past
\* updateDbIfRequired with a response to send.
C36_Witness ==
  /\ pc = "respond"
  /\ adapterFailed
  /\ IsSome(remoteResults)
  /\ remoteResults[1].matches > 0
  /\ Len(result.matches) > 0
  /\ dbError = ""

(* ---------------------------------------------------------------------- *)
(* Properties of the re-init of old init data                              *)
(* ---------------------------------------------------------------------- *)

\* C33: a request that starts more than 24 h (86,400 s) after the last
\* successful initAtlas triggers a re-init before searching, and a request
\* that starts within 24 h of it does not.
C33_ReInitAfterOneDay ==
  servedLast # None =>
    (servedLast[1].reInit <=>
       servedLast[1].startTime - servedLast[1].lastInit
         > REFRESH_TIME_FOR_INIT_DATA * MillisPerSecond)

(* ---------------------------------------------------------------------- *)
(* Properties of the gazetteer re-init                                     *)
(* ---------------------------------------------------------------------- *)

\* C34: a gazetteer re-init builds new dictionaries and swaps them in
\* atomically: a request running concurrently with a re-init reads either
\* the complete old dictionaries or the complete new ones, never a partly
\* reloaded mix, and entries removed from the data files are gone after a
\* re-init that read both files.
C34_ReloadIsAtomicSwap ==
  /\ observed # None => observed[1] \in {gazetteerBefore, dataFiles}
  /\ (reloadPc = "reloaded" /\ gazetteer # gazetteerBefore) => gazetteer = dataFiles

(* ---------------------------------------------------------------------- *)
(* Properties of the Getty adapter                                         *)
(* ---------------------------------------------------------------------- *)

C31_StopsAtLastPage ==
  \A n \in 1..(Len(pages) - 1) : pages[n].next

\* The limits of C31 that hold: no page beyond the sixth, none after 50
\* matches, none after a page n > 1 with 12 n matches or more.
C31_Limits ==
  /\ page <= 6
  /\ \A n \in 1..(Len(pages) - 1) :
       n < 6 /\ pages[n].matchCount < 50 /\ (n > 1 => pages[n].matchCount < 12 * n)

overBudget ==
  fetchedRecords # <<>> /\ secondsSoFar(fetchedRecords) >= PREFERRED_RETRIEVAL_TIME_GETTY

timedOut(a) == timedResult[a] = Rejected(errorResponse(a))

====
